---- MODULE Spec2Model ----
(***************************************************************************)
(* A model of the timon interpreter: the temporal value algebra of         *)
(* tokens.py, the operators of syntax_nodes.py and the tree-walking        *)
(* evaluator (syntax_nodes.py over execution.py), the lexer of             *)
(* lexical_analysis.py over the FileReader of source_readers.py, the       *)
(* FileReader under its whole interface, and the parser of syntax_nodes.py.*)
(*                                                                         *)
(* Python values are records tagged by their class in field t.  A raised   *)
(* exception is the record Raise(exc); Python's NotImplemented is the      *)
(* record NotImplemented.  bool is kept apart from int (tag "bool") but    *)
(* counts as an int wherever Python's isinstance(x, int) does.             *)
(***************************************************************************)
EXTENDS Integers, Sequences, FiniteSets, TLC

VARIABLES
    program,      \* Program.statements: the program being executed or parsed
    pc,           \* the statement the loop of Program.execute is at; in the
                  \* parser, the constructors that are running
    env,          \* the Environment passed to Program.execute
    status,       \* "running", "returned", "finished" or "raised"; of the
                  \* parser "parsing", "parsed" or "raised"
    outcome,      \* what Program.execute or Program(lexer) returned or raised
    lhs, rhs,     \* the operands of a binary operator
    op,           \* the operator applied to them
    result,       \* what binary_evaluate returned or raised
    back,         \* what subtracting rhs from the sum returned or raised
    source_reader, \* the FileReader: the source and the position; for the
                  \* parser the Lexer over it
    tokens        \* what the calls of Lexer.get returned or raised, in order;
                  \* of a FileReader alone, its last call

vars == <<program, pc, env, status, outcome, lhs, rhs, op, result, back,
          source_reader, tokens>>

(***************************************************************************)
(* Python objects                                                          *)
(***************************************************************************)
IntValue(n) == [t |-> "int", v |-> n]

BoolValue(b) == [t |-> "bool", v |-> IF b THEN 1 ELSE 0]

NoneValue == [t |-> "None"]

NotImplemented == [t |-> "NotImplemented"]

Raise(exc) == [t |-> "raise", exc |-> exc, token |-> "-"]

IsRaise(x) == x.t = "raise"

IsInt(x) == x.t \in {"int", "bool"}

\* bool(x) for the results of comparisons and for integers
Truthy(x) == x.v # 0

DateValue(day, month, year) ==
    [t |-> "date", year |-> year, month |-> month, day |-> day]

TimeValue(hour, minute, second) ==
    [t |-> "time", hour |-> hour, minute |-> minute, second |-> second]

DateTimeValue(day, month, year, hour, minute, second) ==
    [t |-> "datetime", year |-> year, month |-> month, day |-> day,
     hour |-> hour, minute |-> minute, second |-> second]

TimedeltaValue(years, months, weeks, days, hours, minutes, seconds) ==
    [t |-> "timedelta", years |-> years, months |-> months, weeks |-> weeks,
     days |-> days, hours |-> hours, minutes |-> minutes, seconds |-> seconds]

(***************************************************************************)
(* The calendar of Python's datetime and calendar modules, as tokens.py    *)
(* uses it                                                                 *)
(***************************************************************************)
MINYEAR == 1

MAXYEAR == 9999

Min(a, b) == IF a <= b THEN a ELSE b

isleap(year) == (year % 4 = 0) /\ ((year % 100 # 0) \/ (year % 400 = 0))

\* calendar.monthrange(year, month)[1]
monthrange(year, month) ==
    IF month = 2 THEN (IF isleap(year) THEN 29 ELSE 28)
    ELSE IF month \in {4, 6, 9, 11} THEN 30 ELSE 31

\* date(year, month, day) is accepted by the constructor
ValidDate(year, month, day) ==
    /\ year >= MINYEAR /\ year <= MAXYEAR
    /\ month >= 1 /\ month <= 12
    /\ day >= 1 /\ day <= monthrange(year, month)

DaysBeforeMonth(year, month) ==
    <<0, 31, 59, 90, 120, 151, 181, 212, 243, 273, 304, 334>>[month]
    + (IF month > 2 /\ isleap(year) THEN 1 ELSE 0)

\* date.toordinal(): 1 for 1.1.0001
toordinal(d) ==
    LET y == d.year - 1
    IN  y * 365 + (y \div 4) - (y \div 100) + (y \div 400)
        + DaysBeforeMonth(d.year, d.month) + d.day

MAXORDINAL == 3652059

\* date.fromordinal(n), for 1 <= n <= MAXORDINAL, as <<year, month, day>>
fromordinal(n) ==
    LET n0 == n - 1
        n400 == n0 \div 146097
        r400 == n0 % 146097
        n100 == r400 \div 36524
        r100 == r400 % 36524
        n4 == r100 \div 1461
        r4 == r100 % 1461
        n1 == r4 \div 365
        r1 == r4 % 365
        year == n400 * 400 + 1 + n100 * 100 + n4 * 4 + n1
    IN  IF n1 = 4 \/ n100 = 4 THEN <<year - 1, 12, 31>>
        ELSE LET month == CHOOSE m \in 1..12 :
                     /\ DaysBeforeMonth(year, m) <= r1
                     /\ r1 < DaysBeforeMonth(year, m) + monthrange(year, m)
             IN  <<year, month, r1 - DaysBeforeMonth(year, month) + 1>>

SecondOfDay(x) == x.hour * 3600 + x.minute * 60 + x.second

\* datetime + timedelta(weeks, days, hours, minutes, seconds)
datetime_add(dt, weeks, days, hours, minutes, seconds) ==
    LET secs == SecondOfDay(dt) + hours * 3600 + minutes * 60 + seconds
        ord == toordinal(dt) + weeks * 7 + days + (secs \div 86400)
        sod == secs % 86400
    IN  IF ord < 1 \/ ord > MAXORDINAL THEN Raise("OverflowError")
        ELSE LET ymd == fromordinal(ord)
             IN  DateTimeValue(ymd[3], ymd[2], ymd[1],
                               sod \div 3600, (sod % 3600) \div 60, sod % 60)

(***************************************************************************)
(* tokens.py: DateValue, TimeValue, DateTimeValue                          *)
(***************************************************************************)
\* datetime.date and datetime.time comparisons of the wrapped values
date_eq(a, b) == a.year = b.year /\ a.month = b.month /\ a.day = b.day

date_lt(a, b) ==
    \/ a.year < b.year
    \/ a.year = b.year /\ a.month < b.month
    \/ a.year = b.year /\ a.month = b.month /\ a.day < b.day

time_eq(a, b) == a.hour = b.hour /\ a.minute = b.minute /\ a.second = b.second

time_lt(a, b) == SecondOfDay(a) < SecondOfDay(b)

\* DateTimeValue(d.day, d.month, d.year, 0, 0, 0)
DateAtMidnight(d) == DateTimeValue(d.day, d.month, d.year, 0, 0, 0)

\* DateTimeValue(1, 1, 1, x.hour, x.minute, x.second)
TimeOnFirstDay(x) == DateTimeValue(1, 1, 1, x.hour, x.minute, x.second)

\* the isinstance(other, DateTimeValue) branches of DateTimeValue
DateTimeEqDateTime(self, other) ==
    BoolValue(date_eq(self, other) /\ time_eq(self, other))

DateTimeLtDateTime(self, other) ==
    BoolValue(date_lt(self, other)
              \/ (date_eq(self, other) /\ time_lt(self, other)))

DateTimeValue__eq__(self, other) ==
    IF other.t = "datetime" THEN DateTimeEqDateTime(self, other)
    ELSE IF other.t = "date"
    THEN DateTimeEqDateTime(self, DateAtMidnight(other))
    ELSE IF other.t = "time"
    THEN DateTimeEqDateTime(self, TimeOnFirstDay(self))
    ELSE NotImplemented

DateTimeValue__lt__(self, other) ==
    IF other.t = "datetime" THEN DateTimeLtDateTime(self, other)
    ELSE IF other.t = "date"
    THEN DateTimeLtDateTime(self, DateAtMidnight(other))
    ELSE IF other.t = "time"
    THEN DateTimeLtDateTime(self, TimeOnFirstDay(other))
    ELSE NotImplemented

DateValue__eq__(self, other) ==
    IF other.t = "datetime"
    THEN DateTimeValue__eq__(DateAtMidnight(self), other)
    ELSE IF other.t = "date" THEN BoolValue(date_eq(self, other))
    ELSE NotImplemented

DateValue__lt__(self, other) ==
    IF other.t = "datetime"
    THEN DateTimeValue__lt__(DateAtMidnight(self), other)
    ELSE IF other.t = "date" THEN BoolValue(date_lt(self, other))
    ELSE NotImplemented

TimeValue__eq__(self, other) ==
    IF other.t = "datetime"
    THEN DateTimeValue__eq__(TimeOnFirstDay(self), other)
    ELSE IF other.t = "time" THEN BoolValue(time_eq(self, other))
    ELSE NotImplemented

TimeValue__lt__(self, other) ==
    IF other.t = "datetime"
    THEN DateTimeValue__lt__(TimeOnFirstDay(self), other)
    ELSE IF other.t = "time" THEN BoolValue(time_lt(self, other))
    ELSE NotImplemented

add_years_and_months(source_date, years, months) ==
    LET m0 == source_date.month - 1 + months
        new_year == source_date.year + (m0 \div 12)
        new_month == (m0 % 12) + 1
        new_day == Min(source_date.day, monthrange(new_year, new_month))
        final_year == new_year + years
    IN  IF new_year < MINYEAR \/ new_year > MAXYEAR THEN Raise("ValueError")
        ELSE IF final_year < MINYEAR \/ final_year > MAXYEAR
        THEN Raise("ValueError")
        ELSE IF ValidDate(final_year, new_month, new_day)
        THEN [source_date EXCEPT !.year = final_year, !.month = new_month,
                                 !.day = new_day]
        ELSE [source_date EXCEPT !.year = final_year, !.month = 2, !.day = 28]

get_years_and_months_diff(left_date, right_date) ==
    LET t1 == [year |-> left_date.year, month |-> right_date.month,
               day |-> Min(right_date.day,
                           monthrange(left_date.year, right_date.month))]
        years_diff == (left_date.year - right_date.year)
                      - (IF date_lt(left_date, t1) THEN 1 ELSE 0)
        t2 == [year |-> left_date.year, month |-> left_date.month,
               day |-> Min(right_date.day,
                           monthrange(left_date.year, left_date.month))]
        month_diff == ((left_date.month - right_date.month)
                       - (IF date_lt(left_date, t2) THEN 1 ELSE 0)) % 12
    IN  <<years_diff, month_diff>>

get_weeks_days_hours_minutes_seconds_diff(left_date, right_date) ==
    LET secs == SecondOfDay(left_date) - SecondOfDay(right_date)
        tddays == toordinal(left_date) - toordinal(right_date)
                  + (secs \div 86400)
        tdsecs == secs % 86400
        weeks == tddays \div 7
        hours == tdsecs \div 3600
        minutes == (tdsecs - hours * 3600) \div 60
    IN  <<weeks, tddays - weeks * 7, hours, minutes,
          tdsecs - hours * 3600 - minutes * 60>>

DateTimeValue__add__(self, other) ==
    IF other.t = "timedelta"
    THEN LET dt == add_years_and_months(self, other.years, other.months)
         IN  IF IsRaise(dt) THEN dt
             ELSE datetime_add(dt, other.weeks, other.days, other.hours,
                               other.minutes, other.seconds)
    ELSE NotImplemented

DateValue__add__(self, other) ==
    IF other.t = "time"
    THEN DateTimeValue(self.day, self.month, self.year,
                       other.hour, other.minute, other.second)
    ELSE IF other.t = "timedelta"
    THEN DateTimeValue__add__(DateAtMidnight(self), other)
    ELSE NotImplemented

TimeValue__add__(self, other) ==
    IF other.t = "date"
    THEN DateTimeValue(other.day, other.month, other.year,
                       self.hour, self.minute, self.second)
    ELSE IF other.t = "timedelta"
    THEN DateTimeValue__add__(TimeOnFirstDay(self), other)
    ELSE NotImplemented

(***************************************************************************)
(* tokens.py: TimedeltaValue                                               *)
(***************************************************************************)
total_months(td) == td.years * 12 + td.months

TimedeltaValue__eq__(self, other) ==
    IF other.t # "timedelta" THEN NotImplemented
    ELSE LET self_total_seconds_less_than_month ==
                 self.seconds
                 + 60 * (self.minutes + 60 * (self.days + 7 * self.weeks))
             other_total_seconds_less_than_month ==
                 other.seconds
                 + 60 * (other.minutes + 60 * (other.days + 7 * other.weeks))
         IN  IF self_total_seconds_less_than_month
                # other_total_seconds_less_than_month
             THEN BoolValue(FALSE)
             ELSE BoolValue(total_months(self) = total_months(other))

\* the ordering with a month counted as 30 days
TimedeltaValue__lt__30(self, other) ==
    IF other.t # "timedelta" THEN NotImplemented
    ELSE BoolValue(
           (total_months(self) * 30)
           + ((self.seconds
               + 60 * (self.minutes
                       + 60 * (self.hours
                               + 24 * (self.days + 7 * self.weeks))))
              \div (60 * 60 * 24))
           < (total_months(other) * 30)
             + ((other.seconds
                 + 60 * (other.minutes
                         + 60 * (other.hours
                                 + 24 * (other.days + 7 * other.weeks))))
                \div (60 * 60 * 24)))

TimedeltaValue__lt__(self, other) ==
    IF other.t # "timedelta" THEN NotImplemented
    ELSE LET self_total_seconds_less_than_month ==
                 self.seconds
                 + 60 * (self.minutes
                         + 60 * (self.hours
                                 + 24 * (self.days + 7 * self.weeks)))
             other_total_seconds_less_than_month ==
                 other.seconds
                 + 60 * (other.minutes
                         + 60 * (other.hours
                                 + 24 * (other.days + 7 * other.weeks)))
         IN  BoolValue(
               (total_months(self) * 31)
               + (self_total_seconds_less_than_month \div (60 * 60 * 24))
               < (total_months(other) * 31)
                 + (other_total_seconds_less_than_month \div (60 * 60 * 24)))

TimedeltaValue__neg__(self) ==
    TimedeltaValue(-self.years, -self.months, -self.weeks, -self.days,
                   -self.hours, -self.minutes, -self.seconds)

TimedeltaValue__add__(self, other) ==
    IF other.t = "timedelta"
    THEN TimedeltaValue(self.years + other.years,
                        self.months + other.months,
                        self.weeks + other.weeks,
                        self.days + other.days,
                        self.hours + other.hours,
                        self.minutes + other.minutes,
                        self.seconds + other.seconds)
    ELSE NotImplemented

TimedeltaValue__sub__(self, other) ==
    IF other.t = "timedelta"
    THEN TimedeltaValue__add__(self, TimedeltaValue__neg__(other))
    ELSE NotImplemented

TimedeltaValue__mul__(self, other) ==
    IF IsInt(other)
    THEN TimedeltaValue(self.years * other.v, self.months * other.v,
                        self.weeks * other.v, self.days * other.v,
                        self.hours * other.v, self.minutes * other.v,
                        self.seconds * other.v)
    ELSE NotImplemented

Abs(n) == IF n < 0 THEN -n ELSE n

Sign(n) == IF n < 0 THEN -1 ELSE IF n > 0 THEN 1 ELSE 0

\* a quotient rounded toward zero
truncdiv(a, b) == Sign(a) * Sign(b) * (Abs(a) \div Abs(b))

\* Python's a // b on integers: the floor of the quotient, for either sign of b
floordiv(a, b) == IF b > 0 THEN a \div b ELSE (-a) \div (-b)

TimedeltaValue__floordiv__(self, other) ==
    IF IsInt(other)
    THEN IF other.v = 0 THEN Raise("ZeroDivisionError")
         ELSE TimedeltaValue(floordiv(self.years, other.v),
                             floordiv(self.months, other.v),
                             floordiv(self.weeks, other.v),
                             floordiv(self.days, other.v),
                             floordiv(self.hours, other.v),
                             floordiv(self.minutes, other.v),
                             floordiv(self.seconds, other.v))
    ELSE NotImplemented

(***************************************************************************)
(* tokens.py: subtraction of DateValue, TimeValue, DateTimeValue           *)
(***************************************************************************)
DateTimeValue__sub__(self, other) ==
    LET fromDateTime(o) ==
            LET ym == get_years_and_months_diff(self, o)
                other_dt == add_years_and_months(o, ym[1], ym[2])
            IN  IF IsRaise(other_dt) THEN other_dt
                ELSE LET r == get_weeks_days_hours_minutes_seconds_diff(
                                  self, other_dt)
                     IN  TimedeltaValue(ym[1], ym[2],
                                        r[1], r[2], r[3], r[4], r[5])
    IN  IF other.t = "datetime" THEN fromDateTime(other)
        ELSE IF other.t = "date" THEN fromDateTime(DateAtMidnight(other))
        ELSE IF other.t = "time" THEN fromDateTime(TimeOnFirstDay(other))
        ELSE IF other.t = "timedelta"
        THEN DateTimeValue__add__(self, TimedeltaValue__neg__(other))
        ELSE NotImplemented

DateValue__sub__(self, other) ==
    IF other.t = "date"
    THEN DateTimeValue__sub__(DateAtMidnight(self), DateAtMidnight(other))
    ELSE IF other.t = "datetime"
    THEN DateTimeValue__sub__(DateAtMidnight(self), other)
    ELSE IF other.t = "timedelta"
    THEN DateValue__add__(self, TimedeltaValue__neg__(other))
    ELSE NotImplemented

TimeValue__sub__(self, other) ==
    IF other.t = "time"
    THEN DateTimeValue__sub__(TimeOnFirstDay(self), TimeOnFirstDay(other))
    ELSE IF other.t = "datetime"
    THEN DateTimeValue__sub__(
             DateTimeValue(other.day, other.month, other.year,
                           self.hour, self.minute, self.second), other)
    ELSE IF other.t = "timedelta"
    THEN TimeValue__add__(self, TimedeltaValue__neg__(other))
    ELSE NotImplemented

(***************************************************************************)
(* Python's operator protocol over these classes: the method of the left   *)
(* operand's class, then the reflected method of the right operand's,      *)
(* then the default; __le__, __gt__, __ge__ are those functools'           *)
(* total_ordering derives from __lt__ and __eq__                           *)
(***************************************************************************)
Method__eq__(self, other) ==
    CASE self.t = "date" -> DateValue__eq__(self, other)
      [] self.t = "time" -> TimeValue__eq__(self, other)
      [] self.t = "datetime" -> DateTimeValue__eq__(self, other)
      [] self.t = "timedelta" -> TimedeltaValue__eq__(self, other)
      [] IsInt(self) -> IF IsInt(other) THEN BoolValue(self.v = other.v)
                        ELSE NotImplemented
      [] OTHER -> NotImplemented

Method__lt__(self, other) ==
    CASE self.t = "date" -> DateValue__lt__(self, other)
      [] self.t = "time" -> TimeValue__lt__(self, other)
      [] self.t = "datetime" -> DateTimeValue__lt__(self, other)
      [] self.t = "timedelta" -> TimedeltaValue__lt__(self, other)
      [] IsInt(self) -> IF IsInt(other) THEN BoolValue(self.v < other.v)
                        ELSE NotImplemented
      [] OTHER -> NotImplemented

PyEq(a, b) ==
    LET r == Method__eq__(a, b)
    IN  IF r # NotImplemented THEN r
        ELSE LET r2 == Method__eq__(b, a)
             IN  IF r2 # NotImplemented THEN r2 ELSE BoolValue(FALSE)

\* object.__ne__ inverts __eq__ unless that is NotImplemented
Method__ne__(self, other) ==
    LET r == Method__eq__(self, other)
    IN  IF r = NotImplemented THEN r ELSE BoolValue(~Truthy(r))

PyNe(a, b) ==
    LET r == Method__ne__(a, b)
    IN  IF r # NotImplemented THEN r
        ELSE LET r2 == Method__ne__(b, a)
             IN  IF r2 # NotImplemented THEN r2 ELSE BoolValue(TRUE)

\* total_ordering: _le_from_lt
Method__le__(self, other) ==
    IF IsInt(self)
    THEN (IF IsInt(other) THEN BoolValue(self.v <= other.v)
          ELSE NotImplemented)
    ELSE LET op_result == Method__lt__(self, other)
         IN  IF op_result = NotImplemented THEN op_result
             ELSE BoolValue(Truthy(op_result) \/ Truthy(PyEq(self, other)))

\* total_ordering: _gt_from_lt
Method__gt__(self, other) ==
    IF IsInt(self)
    THEN (IF IsInt(other) THEN BoolValue(self.v > other.v)
          ELSE NotImplemented)
    ELSE LET op_result == Method__lt__(self, other)
         IN  IF op_result = NotImplemented THEN op_result
             ELSE BoolValue(~Truthy(op_result) /\ Truthy(PyNe(self, other)))

\* total_ordering: _ge_from_lt
Method__ge__(self, other) ==
    IF IsInt(self)
    THEN (IF IsInt(other) THEN BoolValue(self.v >= other.v)
          ELSE NotImplemented)
    ELSE LET op_result == Method__lt__(self, other)
         IN  IF op_result = NotImplemented THEN op_result
             ELSE BoolValue(~Truthy(op_result))

\* first, unless it is NotImplemented; then reflected; then TypeError
Reflect(first, reflected) ==
    IF first # NotImplemented THEN first
    ELSE IF reflected # NotImplemented THEN reflected
    ELSE Raise("TypeError")

PyLt(a, b) == Reflect(Method__lt__(a, b), Method__gt__(b, a))

PyLe(a, b) == Reflect(Method__le__(a, b), Method__ge__(b, a))

PyGt(a, b) == Reflect(Method__gt__(a, b), Method__lt__(b, a))

PyGe(a, b) == Reflect(Method__ge__(a, b), Method__le__(b, a))

Method__add__(self, other) ==
    CASE self.t = "date" -> DateValue__add__(self, other)
      [] self.t = "time" -> TimeValue__add__(self, other)
      [] self.t = "datetime" -> DateTimeValue__add__(self, other)
      [] self.t = "timedelta" -> TimedeltaValue__add__(self, other)
      [] IsInt(self) -> IF IsInt(other) THEN IntValue(self.v + other.v)
                        ELSE NotImplemented
      [] OTHER -> NotImplemented

\* __radd__ is __add__ in DateValue, TimeValue and DateTimeValue;
\* TimedeltaValue defines none
Method__radd__(self, other) ==
    IF self.t \in {"date", "time", "datetime"} THEN Method__add__(self, other)
    ELSE NotImplemented

PyAdd(a, b) == Reflect(Method__add__(a, b), Method__radd__(b, a))

PySub(a, b) ==
    Reflect(CASE a.t = "date" -> DateValue__sub__(a, b)
              [] a.t = "time" -> TimeValue__sub__(a, b)
              [] a.t = "datetime" -> DateTimeValue__sub__(a, b)
              [] a.t = "timedelta" -> TimedeltaValue__sub__(a, b)
              [] IsInt(a) -> IF IsInt(b) THEN IntValue(a.v - b.v)
                             ELSE NotImplemented
              [] OTHER -> NotImplemented,
            NotImplemented)

PyMul(a, b) ==
    Reflect(CASE a.t = "timedelta" -> TimedeltaValue__mul__(a, b)
              [] IsInt(a) -> IF IsInt(b) THEN IntValue(a.v * b.v)
                             ELSE NotImplemented
              [] OTHER -> NotImplemented,
            NotImplemented)

PyFloorDiv(a, b) ==
    Reflect(CASE a.t = "timedelta" -> TimedeltaValue__floordiv__(a, b)
              [] IsInt(a) -> IF ~IsInt(b) THEN NotImplemented
                             ELSE IF b.v = 0 THEN Raise("ZeroDivisionError")
                             ELSE IntValue(floordiv(a.v, b.v))
              [] OTHER -> NotImplemented,
            NotImplemented)

\* bool(x): the classes of tokens.py define neither __bool__ nor __len__
PyBool(x) == IF IsInt(x) THEN x.v # 0 ELSE TRUE

(***************************************************************************)
(* syntax_nodes.py: the binary operators.  binary_evaluate turns a         *)
(* ValueError, TypeError or OverflowError into an ExecutionError that      *)
(* carries the operator's token and lets any other exception through.      *)
(***************************************************************************)
ExecutionError(token) == [t |-> "raise", exc |-> "ExecutionError", token |-> token]

Caught(r, token) ==
    IF IsRaise(r) /\ r.exc \in {"ValueError", "TypeError", "OverflowError"}
    THEN ExecutionError(token)
    ELSE r

PlusOperator(l, r) == Caught(PyAdd(l, r), "+")

MinusOperator(l, r) == Caught(PySub(l, r), "-")

MultiplyOperator(l, r) == Caught(PyMul(l, r), "*")

DivisionOperator(l, r) == Caught(PyFloorDiv(l, r), "/")

OrOperator(l, r) == BoolValue(PyBool(l) \/ PyBool(r))

AndOperator(l, r) == BoolValue(PyBool(l) /\ PyBool(r))

EqualOperator(l, r) == Caught(PyEq(l, r), "==")

NotEqualOperator(l, r) == Caught(PyNe(l, r), "!=")

GreaterOperator(l, r) == Caught(PyGt(l, r), ">")

GreaterOrEqualOperator(l, r) == Caught(PyGe(l, r), ">=")

LessOperator(l, r) == Caught(PyLt(l, r), "<")

LessOrEqualOperator(l, r) == Caught(PyLe(l, r), "<=")

\* the operator node whose token is o
binary_evaluate(o, l, r) ==
    CASE o = "+" -> PlusOperator(l, r)
      [] o = "-" -> MinusOperator(l, r)
      [] o = "*" -> MultiplyOperator(l, r)
      [] o = "/" -> DivisionOperator(l, r)
      [] o = "|" -> OrOperator(l, r)
      [] o = "&" -> AndOperator(l, r)
      [] o = "==" -> EqualOperator(l, r)
      [] o = "!=" -> NotEqualOperator(l, r)
      [] o = ">" -> GreaterOperator(l, r)
      [] o = ">=" -> GreaterOrEqualOperator(l, r)
      [] o = "<" -> LessOperator(l, r)
      [] o = "<=" -> LessOrEqualOperator(l, r)

(***************************************************************************)
(* execution.py: Environment and Scope.  An environment record carries the *)
(* scope stack, the exception in flight (NoneValue when there is none) and *)
(* the trace of what the execution did, which only the properties read.    *)
(***************************************************************************)
Scope == [variables |-> <<>>, functions |-> <<>>]

Environment == [scope_stack |-> <<Scope>>, raised |-> NoneValue, trace |-> <<>>]

Raised(environment) == environment.raised # NoneValue

\* raise exception
Throw(environment, exception) == [environment EXCEPT !.raised = exception]

\* except (classes) as e: raise ExecutionError(token, str(e))
Except(environment, classes, error) ==
    IF Raised(environment) /\ environment.raised.exc \in classes
    THEN [environment EXCEPT !.raised = error]
    ELSE environment

Note(environment, event) ==
    [environment EXCEPT !.trace = Append(@, event)]

Depth(environment) == Len(environment.scope_stack)

push_scope(environment) ==
    [environment EXCEPT !.scope_stack = Append(@, Scope)]

\* a pop that does not look at the depth
pop_scope_unguarded(environment) ==
    [environment EXCEPT !.scope_stack = SubSeq(@, 1, Len(@) - 1)]

pop_scope(environment) ==
    IF Len(environment.scope_stack) = 1
    THEN Throw(environment, Raise("OverflowError"))
    ELSE [environment EXCEPT !.scope_stack = SubSeq(@, 1, Len(@) - 1)]

add_var(environment, identifier) ==
    [environment EXCEPT
       !.scope_stack[Len(environment.scope_stack)].variables =
           (identifier :> NoneValue) @@ @]

\* the innermost scope in which exists_var(identifier) holds, 0 when none
ScopeOfVar(environment, identifier) ==
    LET found == {i \in 1..Len(environment.scope_stack) :
                      identifier \in DOMAIN environment.scope_stack[i].variables}
    IN  IF found = {} THEN 0 ELSE CHOOSE i \in found : \A j \in found : j <= i

\* an assignment that always writes the scope on top of the stack
set_var_top(environment, identifier, value) ==
    LET i == ScopeOfVar(environment, identifier)
    IN  IF i = 0 THEN Throw(environment, Raise("ValueError"))
        ELSE [environment EXCEPT
                !.scope_stack[Len(environment.scope_stack)].variables =
                    (identifier :> value) @@ @]

set_var(environment, identifier, value) ==
    LET i == ScopeOfVar(environment, identifier)
    IN  IF i = 0 THEN Throw(environment, Raise("ValueError"))
        ELSE [environment EXCEPT
                !.scope_stack[i].variables = (identifier :> value) @@ @]

\* a lookup in the scope on top of the stack and in the global scope only
get_var_local_or_global(environment, identifier) ==
    LET top == Len(environment.scope_stack)
        i == IF identifier \in DOMAIN environment.scope_stack[top].variables
             THEN top
             ELSE IF identifier \in DOMAIN environment.scope_stack[1].variables
             THEN 1 ELSE 0
    IN  IF i = 0 THEN Raise("ValueError")
        ELSE IF environment.scope_stack[i].variables[identifier] = NoneValue
        THEN Raise("ValueError")
        ELSE environment.scope_stack[i].variables[identifier]

\* a lookup that walks the scopes from the bottom of the stack
get_var_outermost(environment, identifier) ==
    LET found == {i \in 1..Len(environment.scope_stack) :
                      identifier \in DOMAIN environment.scope_stack[i].variables}
        i == IF found = {} THEN 0 ELSE CHOOSE k \in found : \A j \in found : k <= j
    IN  IF i = 0 THEN Raise("ValueError")
        ELSE IF environment.scope_stack[i].variables[identifier] = NoneValue
        THEN Raise("ValueError")
        ELSE environment.scope_stack[i].variables[identifier]

\* the value, or the ValueError raised (undeclared, uninitialized)
get_var(environment, identifier) ==
    LET i == ScopeOfVar(environment, identifier)
    IN  IF i = 0 THEN Raise("ValueError")
        ELSE IF environment.scope_stack[i].variables[identifier] = NoneValue
        THEN Raise("ValueError")
        ELSE environment.scope_stack[i].variables[identifier]

set_fun(environment, identifier, node) ==
    [environment EXCEPT
       !.scope_stack[Len(environment.scope_stack)].functions =
           (identifier :> node) @@ @]

\* the function's node, or the ValueError raised (undeclared)
get_fun(environment, identifier) ==
    LET found == {i \in 1..Len(environment.scope_stack) :
                      identifier \in DOMAIN environment.scope_stack[i].functions}
    IN  IF found = {} THEN Raise("ValueError")
        ELSE environment.scope_stack[CHOOSE i \in found : \A j \in found : j <= i]
                 .functions[identifier]

(***************************************************************************)
(* syntax_nodes.py: the nodes of the syntax tree, as the parser builds and *)
(* reduces them.  A missing optional child is NoneValue.                   *)
(***************************************************************************)
Literal(value) == [t |-> "Literal", value |-> value]

Identifier(name) == [t |-> "Identifier", name |-> name]

Expression(first, operator, second) ==
    [t |-> "Expression", first |-> first, operator |-> operator,
     second |-> second]

FunctionCall(identifier, parameters) ==
    [t |-> "FunctionCall", identifier |-> identifier, parameters |-> parameters]

VariableAssignmentStatement(identifier, expression) ==
    [t |-> "VariableAssignmentStatement", identifier |-> identifier,
     expression |-> expression]

VariableDefinitionStatement(identifier, expression) ==
    [t |-> "VariableDefinitionStatement", identifier |-> identifier,
     assignment |-> IF expression = NoneValue THEN NoneValue
                    ELSE VariableAssignmentStatement(identifier, expression)]

FunctionDefinitionStatement(identifier, parameters, body) ==
    [t |-> "FunctionDefinitionStatement", identifier |-> identifier,
     parameters |-> parameters, body |-> body]

IfStatement(expression, body, else_body) ==
    [t |-> "IfStatement", expression |-> expression, body |-> body,
     else_body |-> else_body]

FromStatement(start, end, time_unit, identifier, body) ==
    [t |-> "FromStatement", start |-> start, end |-> end,
     time_unit |-> time_unit, identifier |-> identifier, body |-> body]

Body(statements) == [t |-> "Body", statements |-> statements]

PrintStatement(expression) == [t |-> "PrintStatement", expression |-> expression]

ReturnStatement(expression) ==
    [t |-> "ReturnStatement", expression |-> expression]

\* ExecutionError(node.token, ...): only a leaf node has a token
ExecutionErrorAt(node) ==
    IF node.t = "Identifier" THEN ExecutionError(node.name)
    ELSE IF node.t = "Literal" THEN ExecutionError("literal")
    ELSE Raise("AttributeError")

(***************************************************************************)
(* syntax_nodes.py: evaluation and execution.  self_evaluate gives the     *)
(* environment after the evaluation and the value; execute gives the       *)
(* environment and the pair (jumping, value) the method returns.  When the *)
(* environment carries an exception the other fields mean nothing.         *)
(***************************************************************************)
Evaluated(environment, value) == [environment |-> environment, value |-> value]

Executed(environment, jumping, value) ==
    [environment |-> environment, jumping |-> jumping, value |-> value]

\* every call of a method of a node on another node goes through Call
RECURSIVE Call(_)

\* node.self_evaluate(environment)
self_evaluate(node, environment) ==
    Call([method |-> "self_evaluate", node |-> node, environment |-> environment])

\* node.execute(environment)
execute(node, environment) ==
    Call([method |-> "execute", node |-> node, environment |-> environment])

\* the loop of Body.execute from its i-th statement on
Body_execute(node, i, environment) ==
    Call([method |-> "Body.execute", node |-> node, i |-> i,
          environment |-> environment])

\* the while loop of FromStatement.execute, from its test of start <= end on;
\* values are the values the identifier was bound to so far, before is the
\* depth of the scope stack when the statement began
FromStatement_loop(node, environment, start, end, step, values, before) ==
    Call([method |-> "FromStatement.execute", node |-> node,
          environment |-> environment, start |-> start, end |-> end,
          step |-> step, values |-> values, before |-> before])

\* the loop over zip(fun_node.parameters.parameters, self.parameters), from
\* its i-th pair on; caller is the environment the call was made in
FunctionCall_bind(fun_node, node, i, environment, caller) ==
    Call([method |-> "FunctionCall.self_evaluate", fun_node |-> fun_node,
          node |-> node, i |-> i, environment |-> environment,
          caller |-> caller])

Identifier_self_evaluate(node, environment) ==
    LET value == get_var(environment, node.name)
        read(after, answer) ==
            Note(after, [e |-> "read", identifier |-> node.name,
                         scope_stack |-> environment.scope_stack,
                         value |-> answer])
    IN  IF IsRaise(value)
        THEN Evaluated(read(Throw(environment, ExecutionError(node.name)),
                            ExecutionError(node.name)),
                       NoneValue)
        ELSE Evaluated(read(environment, value), value)

\* return value, or raise it when the operator raised
Returned(environment, value) ==
    IF IsRaise(value) THEN Evaluated(Throw(environment, value), NoneValue)
    ELSE Evaluated(environment, value)

\* value = operator.binary_evaluate(value, expression.self_evaluate(environment))
Expression_self_evaluate(node, environment) ==
    LET first == self_evaluate(node.first, environment)
        second == self_evaluate(node.second, first.environment)
    IN  IF Raised(first.environment) THEN first
        ELSE IF Raised(second.environment) THEN second
        ELSE Returned(second.environment,
                      binary_evaluate(node.operator, first.value, second.value))

ParametersDeclaration_execute(parameters, environment) ==
    LET declare[i \in 0..Len(parameters)] ==
            IF i = 0 THEN environment ELSE add_var(declare[i - 1], parameters[i])
    IN  declare[Len(parameters)]

FunctionCall_bind_step(fun_node, node, i, environment, caller) ==
    IF i > Len(node.parameters) THEN environment
    ELSE LET param_id == fun_node.parameters[i]
             param_val == self_evaluate(node.parameters[i], environment)
             in_caller == self_evaluate(node.parameters[i], caller)
             observed ==
                 [e |-> "bind", function |-> node.identifier,
                  parameter |-> param_id,
                  value |-> IF Raised(param_val.environment)
                            THEN param_val.environment.raised
                            ELSE param_val.value,
                  caller_value |-> IF Raised(in_caller.environment)
                                   THEN in_caller.environment.raised
                                   ELSE in_caller.value]
         IN  IF Raised(param_val.environment)
             THEN Note(Except(param_val.environment, {"ValueError"},
                              ExecutionError(param_id)), observed)
             ELSE FunctionCall_bind(
                      fun_node, node, i + 1,
                      Note(set_var(param_val.environment, param_id,
                                   param_val.value), observed),
                      caller)

FunctionCall_self_evaluate(node, environment) ==
    LET fun_node == get_fun(environment, node.identifier)
        bound == FunctionCall_bind(
                     fun_node, node, 1,
                     ParametersDeclaration_execute(fun_node.parameters,
                                                   push_scope(environment)),
                     environment)
        body == Body_execute(fun_node.body, 1, bound)
        popped == pop_scope(body.environment)
    IN  IF IsRaise(fun_node)
        THEN Evaluated(Throw(environment, ExecutionError(node.identifier)),
                       NoneValue)
        ELSE IF Len(fun_node.parameters) # Len(node.parameters)
        THEN Evaluated(Note(Throw(environment, Raise("ValueError")),
                            [e |-> "arity", function |-> node.identifier,
                             parameters |-> Len(fun_node.parameters),
                             arguments |-> Len(node.parameters)]),
                       NoneValue)
        ELSE IF Raised(bound) THEN Evaluated(bound, NoneValue)
        ELSE IF Raised(body.environment) THEN Evaluated(body.environment, NoneValue)
        ELSE IF Raised(popped) THEN Evaluated(popped, NoneValue)
        ELSE Evaluated(
                 Note(popped, [e |-> "exit", node |-> "FunctionCall",
                               before |-> Depth(environment),
                               after |-> Depth(popped),
                               jumping |-> FALSE, value |-> body.value,
                               function |-> node.identifier,
                               scope_stack |-> environment.scope_stack]),
                 body.value)

VariableAssignmentStatement_execute(node, environment) ==
    LET expression == self_evaluate(node.expression, environment)
        assigned == set_var(expression.environment, node.identifier,
                            expression.value)
        done == IF Raised(expression.environment) THEN expression.environment
                ELSE Note(assigned,
                          [e |-> "assign", identifier |-> node.identifier,
                           value |-> expression.value,
                           before |-> expression.environment.scope_stack,
                           after |-> assigned.scope_stack])
    IN  Executed(Except(done, {"ValueError"}, ExecutionError(node.identifier)),
                 FALSE, NoneValue)

VariableDefinitionStatement_execute(node, environment) ==
    LET added == add_var(environment, node.identifier)
        declared == Note(added, [e |-> "declare",
                                 identifier |-> node.identifier,
                                 before |-> environment.scope_stack,
                                 after |-> added.scope_stack])
    IN  IF node.assignment = NoneValue THEN Executed(declared, FALSE, NoneValue)
        ELSE Executed(execute(node.assignment, declared).environment,
                      FALSE, NoneValue)

FunctionDefinitionStatement_execute(node, environment) ==
    Executed(set_fun(environment, node.identifier, node), FALSE, NoneValue)

IfStatement_execute(node, environment) ==
    LET expression == self_evaluate(node.expression, environment)
        chosen == IF PyBool(expression.value) THEN node.body ELSE node.else_body
        body == Body_execute(chosen, 1, push_scope(expression.environment))
        popped == pop_scope(body.environment)
        exit(after, jumping, value) ==
            Note(after, [e |-> "exit", node |-> "IfStatement",
                         before |-> Depth(environment), after |-> Depth(after),
                         jumping |-> jumping, value |-> value])
    IN  IF Raised(expression.environment)
        THEN Executed(expression.environment, FALSE, NoneValue)
        ELSE IF chosen = NoneValue
        THEN Executed(exit(expression.environment, FALSE, NoneValue),
                      FALSE, NoneValue)
        ELSE IF Raised(body.environment) THEN body
        ELSE IF body.jumping
        THEN Executed(exit(popped, TRUE, body.value), TRUE, body.value)
        ELSE Executed(exit(popped, FALSE, NoneValue), FALSE, NoneValue)

\* the body of the while loop once start <= end gave condition, and the
\* start += step after it, which gives next
FromStatement_loop_turn(node, environment, start, end, step, values, before, condition, next) ==
    LET inner == set_var(add_var(push_scope(environment), node.identifier),
                         node.identifier, start)
        body == Body_execute(node.body, 1,
                             Note(inner, [e |-> "iteration",
                                          identifier |-> node.identifier,
                                          value |-> start,
                                          before |-> environment.scope_stack,
                                          after |-> inner.scope_stack]))
        popped == pop_scope(body.environment)
        exit(after, jumping, value) ==
            Note(after, [e |-> "exit", node |-> "FromStatement",
                         before |-> before, after |-> Depth(after),
                         jumping |-> jumping, value |-> value,
                         values |-> IF jumping THEN Append(values, start)
                                    ELSE values,
                         end |-> end, step |-> step])
    IN  IF IsRaise(condition)
        THEN Executed(Throw(environment, condition), FALSE, NoneValue)
        ELSE IF ~PyBool(condition)
        THEN Executed(exit(environment, FALSE, NoneValue), FALSE, NoneValue)
        ELSE IF Raised(body.environment) THEN body
        ELSE IF body.jumping
        THEN Executed(exit(popped, TRUE, body.value), TRUE, body.value)
        ELSE IF IsRaise(next)
        THEN Executed(Note(Throw(popped, ExecutionErrorAt(node.start)),
                           [e |-> "failure", node |-> "FromStatement",
                            of |-> "step", start |-> node.start,
                            raised |-> ExecutionErrorAt(node.start)]),
                      FALSE, NoneValue)
        ELSE FromStatement_loop(node, popped, next, end, step,
                                Append(values, start), before)

FromStatement_loop_step(node, environment, start, end, step, values, before) ==
    FromStatement_loop_turn(node, environment, start, end, step, values, before,
                            PyLe(start, end), PyAdd(start, step))

FromStatement_execute(node, environment) ==
    LET start == self_evaluate(node.start, push_scope(environment))
        end == self_evaluate(node.end, start.environment)
        step == self_evaluate(node.time_unit, end.environment)
        loop == FromStatement_loop(node, step.environment, start.value,
                                   end.value, step.value, <<>>,
                                   Depth(environment))
    IN  IF Raised(start.environment)
        THEN Executed(start.environment, FALSE, NoneValue)
        ELSE IF Raised(end.environment)
        THEN Executed(end.environment, FALSE, NoneValue)
        ELSE IF Raised(step.environment)
        THEN Executed(step.environment, FALSE, NoneValue)
        ELSE IF IsRaise(PyLe(start.value, end.value))
        THEN Executed(Note(Except(loop.environment,
                                  {"ValueError", "TypeError", "OverflowError"},
                                  ExecutionErrorAt(node.start)),
                           [e |-> "failure", node |-> "FromStatement",
                            of |-> "comparison", start |-> node.start,
                            raised |-> ExecutionErrorAt(node.start)]),
                      loop.jumping, loop.value)
        ELSE Executed(Except(loop.environment,
                             {"ValueError", "TypeError", "OverflowError"},
                             ExecutionErrorAt(node.start)),
                      loop.jumping, loop.value)

PrintStatement_execute(node, environment) ==
    LET expression == self_evaluate(node.expression, environment)
    IN  IF Raised(expression.environment)
        THEN Executed(expression.environment, FALSE, NoneValue)
        ELSE Executed(Note(expression.environment,
                           [e |-> "print", value |-> expression.value]),
                      FALSE, NoneValue)

ReturnStatement_execute(node, environment) ==
    LET expression == IF node.expression = NoneValue
                      THEN Evaluated(environment, IntValue(0))
                      ELSE self_evaluate(node.expression, environment)
    IN  IF Raised(expression.environment)
        THEN Executed(expression.environment, TRUE, NoneValue)
        ELSE Executed(Note(expression.environment,
                           [e |-> "return", value |-> expression.value]),
                      TRUE, expression.value)

FunctionCall_execute(node, environment) ==
    Executed(self_evaluate(node, environment).environment, FALSE, NoneValue)

\* the loop without the return on jumping
Body_execute_through(node, i, environment) ==
    IF i > Len(node.statements) THEN Executed(environment, FALSE, IntValue(0))
    ELSE LET statement ==
                 execute(node.statements[i],
                         Note(environment, [e |-> "statement",
                                            node |-> node.statements[i].t]))
         IN  IF Raised(statement.environment) THEN statement
             ELSE Body_execute(node, i + 1, statement.environment)

Body_execute_step(node, i, environment) ==
    IF i > Len(node.statements) THEN Executed(environment, FALSE, IntValue(0))
    ELSE LET statement ==
                 execute(node.statements[i],
                         Note(environment, [e |-> "statement",
                                            node |-> node.statements[i].t]))
         IN  IF Raised(statement.environment) THEN statement
             ELSE IF statement.jumping
             THEN Executed(statement.environment, TRUE, statement.value)
             ELSE Body_execute(node, i + 1, statement.environment)

Call(call) ==
    CASE call.method = "self_evaluate" ->
           (CASE call.node.t = "Literal" ->
                     Evaluated(call.environment, call.node.value)
              [] call.node.t = "Identifier" ->
                     Identifier_self_evaluate(call.node, call.environment)
              [] call.node.t = "Expression" ->
                     Expression_self_evaluate(call.node, call.environment)
              [] call.node.t = "FunctionCall" ->
                     FunctionCall_self_evaluate(call.node, call.environment))
      [] call.method = "execute" ->
           (CASE call.node.t = "VariableAssignmentStatement" ->
                     VariableAssignmentStatement_execute(call.node, call.environment)
              [] call.node.t = "VariableDefinitionStatement" ->
                     VariableDefinitionStatement_execute(call.node, call.environment)
              [] call.node.t = "FunctionDefinitionStatement" ->
                     FunctionDefinitionStatement_execute(call.node, call.environment)
              [] call.node.t = "IfStatement" ->
                     IfStatement_execute(call.node, call.environment)
              [] call.node.t = "FromStatement" ->
                     FromStatement_execute(call.node, call.environment)
              [] call.node.t = "PrintStatement" ->
                     PrintStatement_execute(call.node, call.environment)
              [] call.node.t = "ReturnStatement" ->
                     ReturnStatement_execute(call.node, call.environment)
              [] call.node.t = "FunctionCall" ->
                     FunctionCall_execute(call.node, call.environment))
      [] call.method = "Body.execute" ->
             Body_execute_step(call.node, call.i, call.environment)
      [] call.method = "FromStatement.execute" ->
             FromStatement_loop_step(call.node, call.environment, call.start,
                                     call.end, call.step, call.values,
                                     call.before)
      [] call.method = "FunctionCall.self_evaluate" ->
             FunctionCall_bind_step(call.fun_node, call.node, call.i,
                                    call.environment, call.caller)

(***************************************************************************)
(* Program.execute on an Environment(): one step per statement of the      *)
(* program, whole with everything the statement calls.                     *)
(***************************************************************************)
Number(n) == Literal(IntValue(n))

Seconds == Literal(TimedeltaValue(0, 0, 0, 0, 0, 0, 1))

Hours == Literal(TimedeltaValue(0, 0, 0, 0, 1, 0, 0))

Days == Literal(TimedeltaValue(0, 0, 0, 1, 0, 0, 0))

MaxNumber == 2

MaxSteps == 2

Numbers == {Number(n) : n \in 0..MaxNumber}

\* the last seconds and the last hours of the day, the first days of a year
LastSeconds == {Literal(TimeValue(23, 59, 59 - n)) : n \in 0..MaxSteps}

LastHours == {Literal(TimeValue(23 - n, 0, 0)) : n \in 0..MaxSteps}

FirstDates == {Literal(DateValue(1 + n, 1, 2020)) : n \in 0..MaxSteps}

Plus(first, second) == Expression(first, "+", second)

\* var a = 0; from START to END by UNIT as d { a = a + 1; }; return a;
FromPrograms ==
    {<<VariableDefinitionStatement("a", Number(0)),
       FromStatement(bounds[1], bounds[2], bounds[3], "d",
                     Body(<<VariableAssignmentStatement(
                                "a", Plus(Identifier("a"), Number(1)))>>)),
       ReturnStatement(Identifier("a"))>> :
        bounds \in (LastSeconds \X LastSeconds \X {Seconds, Hours})
                   \cup (LastHours \X LastHours \X {Hours, Days})
                   \cup (FirstDates \X FirstDates \X {Days})}

\* fun b(c) { return c + 1; }; called on a variable named NAME
\* fun f(x, y) { return y; }; called as f(N, x) where x is a variable
CallPrograms ==
    {<<VariableDefinitionStatement(name, n),
       FunctionDefinitionStatement(
           "b", <<"c">>,
           Body(<<ReturnStatement(Plus(Identifier("c"), Number(1)))>>)),
       ReturnStatement(FunctionCall("b", <<Identifier(name)>>))>> :
        name \in {"a", "c"}, n \in Numbers}
    \cup
    {<<VariableDefinitionStatement("x", Number(1)),
       FunctionDefinitionStatement(
           "f", <<"x", "y">>, Body(<<ReturnStatement(Identifier(second))>>)),
       VariableDefinitionStatement("r", NoneValue),
       VariableAssignmentStatement(
           "r", FunctionCall("f", <<n, Plus(Identifier("x"), n)>>)),
       PrintStatement(Identifier("r")),
       FunctionCall("f", <<Identifier("r"), Identifier("r")>>),
       ReturnStatement(Plus(Identifier("r"), Identifier("x")))>> :
        second \in {"x", "y"}, n \in Numbers}

\* fun a() { if N { return 5; print 6; }; return 7; };
\* var a = a(); if a == 5 { return a; print a; } else { a = M; }; return;
\* and a return out of a from loop inside a function
ReturnPrograms ==
    {<<FunctionDefinitionStatement(
           "a", <<>>,
           Body(<<IfStatement(n, Body(<<ReturnStatement(Number(5)),
                                        PrintStatement(Number(6))>>),
                              NoneValue),
                  ReturnStatement(Number(7))>>)),
       VariableDefinitionStatement("a", FunctionCall("a", <<>>)),
       IfStatement(Expression(Identifier("a"), "==", Number(5)),
                   Body(<<ReturnStatement(Identifier("a")),
                          PrintStatement(Identifier("a"))>>),
                   Body(<<VariableAssignmentStatement("a", m)>>)),
       ReturnStatement(NoneValue),
       PrintStatement(Identifier("a"))>> : n \in Numbers, m \in Numbers}
    \cup
    {<<FunctionDefinitionStatement(
           "f", <<"n">>,
           Body(<<FromStatement(
                      bounds[1], bounds[2], Days, "d",
                      Body(<<IfStatement(
                                 Expression(Identifier("d"), ">=",
                                            Literal(DateValue(2, 1, 2020))),
                                 Body(<<ReturnStatement(Identifier("n")),
                                        PrintStatement(Identifier("d"))>>),
                                 NoneValue),
                             PrintStatement(Identifier("d"))>>)),
                  PrintStatement(Number(0))>>)),
       FunctionCall("f", <<n>>),
       PrintStatement(Plus(FunctionCall("f", <<n>>), Number(1))),
       FromStatement(bounds[1], bounds[2], Days, "d",
                     Body(<<ReturnStatement(Identifier("d"))>>))>> :
        bounds \in FirstDates \X FirstDates, n \in Numbers}

\* fun b(c) { print c; return c + 1; }; var r = 0; then a call of b with
\* no, one or two arguments: as a statement, assigned, returned, as argument
ArityPrograms ==
    {<<FunctionDefinitionStatement(
           "b", <<"c">>,
           Body(<<PrintStatement(Identifier("c")),
                  ReturnStatement(Plus(Identifier("c"), Number(1)))>>)),
       VariableDefinitionStatement("r", Number(0)),
       statement,
       PrintStatement(Identifier("r"))>> :
        statement \in UNION {{call,
                              VariableAssignmentStatement("r", call),
                              ReturnStatement(call),
                              FunctionCall("b", <<call>>)} :
                                 call \in {FunctionCall("b", arguments) :
                                     arguments \in {<<>>, <<Number(1)>>,
                                                    <<Number(1), Number(2)>>}}}}

\* var x = N; (or var x;) var y; if 1 { var NAME; TARGET = 2; print TARGET; };
\* print x; z = 1;   and the loop variable that shadows a variable:
\* var a = 0; from START to END by days as a { a = a + 1D; }; return a;
ScopePrograms ==
    {<<VariableDefinitionStatement("x", first),
       VariableDefinitionStatement("y", NoneValue),
       IfStatement(Number(1),
                   Body(<<VariableDefinitionStatement(name, NoneValue),
                          VariableAssignmentStatement(target, Number(2)),
                          PrintStatement(Identifier(target))>>),
                   NoneValue),
       PrintStatement(Identifier("x")),
       VariableAssignmentStatement("z", Number(1))>> :
        first \in {NoneValue, Number(1)}, name \in {"x", "z"},
        target \in {"x", "y", "w"}}
    \cup
    {<<VariableDefinitionStatement("a", Number(0)),
       FromStatement(bounds[1], bounds[2], Days, "a",
                     Body(<<VariableAssignmentStatement(
                                "a", Plus(Identifier("a"), Days))>>)),
       ReturnStatement(Identifier("a"))>> : bounds \in FirstDates \X FirstDates}

\* var s = START; from FORM to END by UNIT as d { print d; }; print 0;
\* where the comparison of START with END or the first step fails, and FORM
\* is START as a literal, the identifier s, or a sum that gives START
FailingFromPrograms ==
    UNION {{<<VariableDefinitionStatement("s", bounds[1]),
              FromStatement(form, bounds[2], unit, "d",
                            Body(<<PrintStatement(Identifier("d"))>>)),
              PrintStatement(Number(0))>> :
                unit \in {Seconds, Days},
                form \in {bounds[1], Identifier("s")} \cup bounds[3]} :
           bounds \in {<<Number(5), Number(6), {Plus(Number(5), Number(0))}>>,
                       <<Literal(TimeValue(0, 0, 0)),
                         Literal(DateValue(1, 1, 2000)), {}>>,
                       <<Literal(DateValue(31, 12, 9999)),
                         Literal(DateValue(31, 12, 9999)),
                         {Plus(Literal(DateValue(31, 12, 9999)),
                               Literal(TimedeltaValue(0, 0, 0, 0, 0, 0, 0)))}>>}}

\* var x = N; fun f() { return x; }; fun h() { return k(); };
\* fun k() { return 1; }; fun g(x) { print f(); return h(); };
\* print f(); print g(M); if 1 { var x = M; print f(); };
\* fun k() { return 2; }; from D to D by days as x { print h(); print f(); };
FreeNamePrograms ==
    {<<VariableDefinitionStatement("x", n),
       FunctionDefinitionStatement(
           "f", <<>>, Body(<<ReturnStatement(Identifier("x"))>>)),
       FunctionDefinitionStatement(
           "h", <<>>, Body(<<ReturnStatement(FunctionCall("k", <<>>))>>)),
       FunctionDefinitionStatement(
           "k", <<>>, Body(<<ReturnStatement(Number(1))>>)),
       FunctionDefinitionStatement(
           "g", <<"x">>,
           Body(<<PrintStatement(FunctionCall("f", <<>>)),
                  ReturnStatement(FunctionCall("h", <<>>))>>)),
       PrintStatement(FunctionCall("f", <<>>)),
       PrintStatement(FunctionCall("g", <<m>>)),
       IfStatement(Number(1),
                   Body(<<VariableDefinitionStatement("x", m),
                          PrintStatement(FunctionCall("f", <<>>))>>),
                   NoneValue),
       FunctionDefinitionStatement(
           "k", <<>>, Body(<<ReturnStatement(Number(2))>>)),
       FromStatement(first, first, Days, "x",
                     Body(<<PrintStatement(FunctionCall("h", <<>>)),
                            PrintStatement(FunctionCall("f", <<>>))>>))>> :
        n \in Numbers, m \in Numbers, first \in FirstDates}

Programs ==
    FromPrograms \cup CallPrograms \cup ReturnPrograms \cup ArityPrograms
    \cup ScopePrograms \cup FailingFromPrograms \cup FreeNamePrograms

Init ==
    /\ program \in Programs
    /\ pc = 1
    /\ env = Environment
    /\ status = "running"
    /\ outcome = NoneValue
    /\ lhs = NoneValue /\ rhs = NoneValue /\ op = "none"
    /\ result = NoneValue /\ back = NoneValue
    /\ source_reader = NoneValue /\ tokens = <<>>

\* one turn of the loop of Program.execute, on a statement of class t
Program_execute(t) ==
    /\ status = "running"
    /\ pc <= Len(program)
    /\ program[pc].t = t
    /\ \E statement \in {execute(program[pc],
                                Note(env, [e |-> "statement", node |-> t]))} :
           /\ env' = statement.environment
           /\ IF Raised(statement.environment)
              THEN /\ status' = "raised"
                   /\ outcome' = statement.environment.raised
                   /\ pc' = pc
              ELSE IF statement.jumping
              THEN /\ status' = "returned"
                   /\ outcome' = statement.value
                   /\ pc' = pc
              ELSE /\ status' = "running"
                   /\ outcome' = outcome
                   /\ pc' = pc + 1
    /\ UNCHANGED <<program, lhs, rhs, op, result, back,
                   source_reader, tokens>>

ExecuteVariableDefinitionStatement == Program_execute("VariableDefinitionStatement")

ExecuteVariableAssignmentStatement == Program_execute("VariableAssignmentStatement")

ExecuteFunctionDefinitionStatement == Program_execute("FunctionDefinitionStatement")

ExecuteIfStatement == Program_execute("IfStatement")

ExecuteFromStatement == Program_execute("FromStatement")

ExecutePrintStatement == Program_execute("PrintStatement")

ExecuteReturnStatement == Program_execute("ReturnStatement")

ExecuteFunctionCall == Program_execute("FunctionCall")

\* the return None after the loop of Program.execute
ProgramEnd ==
    /\ status = "running"
    /\ pc > Len(program)
    /\ status' = "finished"
    /\ outcome' = NoneValue
    /\ UNCHANGED <<program, pc, env, lhs, rhs, op, result, back,
                   source_reader, tokens>>

Next ==
    \/ ExecuteVariableDefinitionStatement
    \/ ExecuteVariableAssignmentStatement
    \/ ExecuteFunctionDefinitionStatement
    \/ ExecuteIfStatement
    \/ ExecuteFromStatement
    \/ ExecutePrintStatement
    \/ ExecuteReturnStatement
    \/ ExecuteFunctionCall
    \/ ProgramEnd

Spec == Init /\ [][Next]_vars

(***************************************************************************)
(* The value algebra under test: a pair of operands drawn from bounded     *)
(* sets, one binary operator of the language applied to it, and for `+`    *)
(* the subtraction of the right operand from the sum, as the program       *)
(* (lhs + rhs) - rhs evaluates it.                                         *)
(***************************************************************************)
MaxInt == 7

MaxYears == 1

MaxMonths == 13

Operators == {"+", "-", "*", "/", "|", "&", "==", "!=", ">", ">=", "<", "<="}

IntInputs == {IntValue(n) : n \in (-MaxInt)..MaxInt}

DateInputs ==
    {DateValue(15, 1, 2019), DateValue(31, 1, 2019), DateValue(28, 2, 2019),
     DateValue(29, 2, 2020), DateValue(31, 3, 2020), DateValue(31, 5, 2020),
     DateValue(31, 12, 2020), DateValue(1, 1, 1), DateValue(15, 6, 1),
     DateValue(1, 6, 9999), DateValue(31, 12, 9999)}

TimeInputs ==
    {TimeValue(0, 0, 0), TimeValue(0, 0, 5), TimeValue(0, 0, 6),
     TimeValue(20, 37, 35), TimeValue(23, 59, 59)}

DateTimeInputs ==
    {DateTimeValue(1, 1, 1, x.hour, x.minute, x.second) : x \in TimeInputs}
    \cup {DateTimeValue(2, 1, 1, 20, 37, 35), DateTimeValue(2, 1, 1, 0, 0, 0),
          DateTimeValue(29, 2, 2020, 0, 0, 0),
          DateTimeValue(31, 1, 2019, 23, 59, 59)}

\* timedeltas of years and months only
YearMonthInputs ==
    {TimedeltaValue(y, m, 0, 0, 0, 0, 0) :
         y \in (-MaxYears)..MaxYears, m \in (-MaxMonths)..MaxMonths}

\* timedeltas with at most two fields set
FieldValues ==
    [years |-> {1}, months |-> {-1, 1, 12}, weeks |-> {-1, 1},
     days |-> {-31, -30, 1, 7, 20, 31, 32}, hours |-> {1, 24},
     minutes |-> {60}, seconds |-> {-1, 60}]

ZeroTimedelta == TimedeltaValue(0, 0, 0, 0, 0, 0, 0)

TimedeltaInputs ==
    {ZeroTimedelta}
    \cup UNION {UNION {{[[ZeroTimedelta EXCEPT ![f] = x] EXCEPT ![g] = y] :
                            x \in FieldValues[f], y \in FieldValues[g] \cup {0}} :
                       g \in DOMAIN FieldValues \ {f}} :
                f \in DOMAIN FieldValues}

Datelikes == DateInputs \cup TimeInputs \cup DateTimeInputs

ValuePairs ==
    (IntInputs \X IntInputs)
    \cup (TimedeltaInputs \X TimedeltaInputs)
    \cup (TimedeltaInputs \X {IntValue(-2), IntValue(0), IntValue(2)})
    \cup ((DateInputs \cup DateTimeInputs) \X (YearMonthInputs \cup TimedeltaInputs))
    \cup (TimeInputs \X {x \in TimedeltaInputs : x.years = 0 /\ x.months = 0})
    \cup (Datelikes \X Datelikes)
    \cup ({IntValue(5), TimedeltaValue(0, 0, 0, 0, 0, 0, 1)} \X Datelikes)
    \cup (Datelikes \X {IntValue(5)})

InitValues ==
    /\ \E p \in ValuePairs : lhs = p[1] /\ rhs = p[2]
    /\ op = "init"
    /\ result = NoneValue
    /\ back = NoneValue
    /\ program = <<>> /\ pc = 1 /\ env = Environment
    /\ status = "none" /\ outcome = NoneValue
    /\ source_reader = NoneValue /\ tokens = <<>>

\* operator.binary_evaluate(lhs, rhs, environment)
Evaluate(o) ==
    /\ op = "init"
    /\ op' = o
    /\ result' = binary_evaluate(o, lhs, rhs)
    /\ UNCHANGED <<lhs, rhs, back, program, pc, env, status, outcome,
                   source_reader, tokens>>

\* (lhs + rhs) - rhs: the MinusOperator on the PlusOperator's value
SubtractBack ==
    /\ op = "+"
    /\ ~IsRaise(result)
    /\ op' = "+-"
    /\ back' = MinusOperator(result, rhs)
    /\ UNCHANGED <<lhs, rhs, result, program, pc, env, status, outcome,
                   source_reader, tokens>>

NextValues == (\E o \in Operators : Evaluate(o)) \/ SubtractBack

SpecValues == InitValues /\ [][NextValues]_vars

(***************************************************************************)
(* Properties of the execution, checked under Spec.                        *)
(***************************************************************************)
Promoted(x) == IF x.t = "time" THEN TimeOnFirstDay(x) ELSE x

Events == {env.trace[i] : i \in 1..Len(env.trace)}

Exits == {event \in Events : event.e = "exit"}

\* C1: after a from statement, an if statement or a function call that does
\* not jump, the scope stack is as deep as it was before the construct.
C1_ScopeDepth ==
    \A event \in Exits : ~event.jumping => event.after = event.before

\* the first event after the i-th that is not an if or from statement
\* handing a return on to its caller; 0 when there is none
Landing(i) ==
    LET later == {j \in i + 1..Len(env.trace) :
                      ~(env.trace[j].e = "exit" /\ env.trace[j].jumping)}
    IN  IF later = {} THEN 0 ELSE CHOOSE j \in later : \A k \in later : j <= k

\* C2: once a return statement has executed, nothing else executes up to the
\* enclosing function call or the program (no statement, no iteration of a
\* from loop, no print), every construct on the way hands the value on,
\* and the call or the program returns the value of that return.
C2_ReturnStopsBody ==
    \A i \in 1..Len(env.trace) :
        env.trace[i].e = "return" =>
            /\ \A j \in i + 1..Len(env.trace) :
                   (Landing(i) = 0 \/ j < Landing(i))
                   => env.trace[j].value = env.trace[i].value
            /\ IF Landing(i) = 0
               THEN status = "returned" /\ outcome = env.trace[i].value
               ELSE /\ env.trace[Landing(i)].e = "exit"
                    /\ env.trace[Landing(i)].node = "FunctionCall"
                    /\ env.trace[Landing(i)].value = env.trace[i].value

\* a function returned from inside an if statement inside a from loop, with
\* statements left in both bodies, and so did the program
C2_Witness ==
    /\ status = "returned"
    /\ \E i \in 1..Len(env.trace) :
           /\ env.trace[i].e = "return"
           /\ Landing(i) > i + 2
           /\ env.trace[i + 1].node = "IfStatement"
           /\ env.trace[i + 2].node = "FromStatement"
    /\ \E i \in 1..Len(env.trace) :
           env.trace[i].e = "return" /\ Landing(i) = 0 /\ i < Len(env.trace)

\* C3: every argument of a call is evaluated in the caller's environment:
\* the value bound to a parameter is the value the argument expression has
\* where the call is made.
C3_ArgumentsInCallersEnvironment ==
    \A event \in Events :
        event.e = "bind" => event.value = event.caller_value

\* the value start + k units, None when it cannot be computed
Stepped(start, step, k) ==
    LET stepped[i \in 0..k] ==
            IF i = 0 THEN start
            ELSE IF IsRaise(stepped[i - 1]) THEN stepped[i - 1]
            ELSE PlusOperator(stepped[i - 1], step)
    IN  stepped[k]

\* value <= end, a Time standing for that time on 1.1.0001
NotAfter(v, end) ==
    LessOrEqualOperator(Promoted(v), Promoted(end)) = BoolValue(TRUE)

\* C4: a from statement that ran to its end bound its identifier to exactly
\* the values start, start + 1 unit, ... that are <= end, and stopped at the
\* first value greater than end; for two times T1 <= T2 stepped by seconds
\* that is (seconds from T1 to T2) + 1 values.
C4_FromIterations ==
    \A event \in Exits :
        (event.node = "FromStatement" /\ ~event.jumping
         /\ Len(event.values) > 0)
        => /\ \A k \in 1..Len(event.values) :
                  /\ event.values[k]
                       = Promoted(Stepped(event.values[1], event.step, k - 1))
                     \/ event.values[k]
                       = Stepped(event.values[1], event.step, k - 1)
                  /\ NotAfter(event.values[k], event.end)
           /\ ~NotAfter(Stepped(event.values[1], event.step,
                                Len(event.values)), event.end)
           /\ (/\ event.values[1].t = "time" /\ event.end.t = "time"
               /\ event.step = Seconds.value)
              => Len(event.values)
                   = SecondOfDay(event.end) - SecondOfDay(event.values[1]) + 1

(***************************************************************************)
(* Properties of the value algebra, checked under SpecValues.              *)
(***************************************************************************)
IsDateLike(x) == x.t \in {"date", "datetime"}

OnlyYearsAndMonths(td) ==
    /\ td.t = "timedelta"
    /\ td.weeks = 0 /\ td.days = 0
    /\ td.hours = 0 /\ td.minutes = 0 /\ td.seconds = 0

\* step of add_years_and_months on x that kept the day of month
KeptDay(x, years, months) ==
    LET moved == add_years_and_months(x, years, months)
    IN  ~IsRaise(moved) /\ moved.day = x.day

\* C5: for a Date d and a Timedelta td with d + td representable,
\* (d + td) - td == d when neither step clamped the day of month, and
\* (d + td) - td <= d when one did.
C5_RoundTrip ==
    (op = "+-" /\ lhs.t = "date" /\ rhs.t = "timedelta" /\ ~IsRaise(back))
    => IF /\ KeptDay(lhs, rhs.years, rhs.months)
          /\ KeptDay(result, -rhs.years, -rhs.months)
       THEN EqualOperator(back, lhs) = BoolValue(TRUE)
       ELSE LessOrEqualOperator(back, lhs) = BoolValue(TRUE)

SubMonthSeconds(td) ==
    td.weeks * 7 * 24 * 3600 + td.days * 24 * 3600 + td.hours * 3600
    + td.minutes * 60 + td.seconds

\* C6: two timedeltas are equal exactly when their total months are equal
\* and their sub-month durations in seconds are equal.
C6_TimedeltaEquality ==
    (op = "==" /\ lhs.t = "timedelta" /\ rhs.t = "timedelta")
    => result = BoolValue(/\ total_months(lhs) = total_months(rhs)
                          /\ SubMonthSeconds(lhs) = SubMonthSeconds(rhs))

\* the sub-month duration in whole days: the largest number of days that
\* does not exceed it
WholeDays(td) == SubMonthSeconds(td) \div 86400

OrderingKey(td) == total_months(td) * 31 + WholeDays(td)

\* C7: a < b on timedeltas holds exactly when
\* total_months(a)*31 + whole days of a < total_months(b)*31 + whole days of b.
C7_TimedeltaOrdering ==
    (op = "<" /\ lhs.t = "timedelta" /\ rhs.t = "timedelta")
    => result = BoolValue(OrderingKey(lhs) < OrderingKey(rhs))

\* 1 month < 32 days was evaluated, and is true
C7_Witness ==
    /\ op = "<"
    /\ lhs = TimedeltaValue(0, 1, 0, 0, 0, 0, 0)
    /\ rhs = TimedeltaValue(0, 0, 0, 32, 0, 0, 0)
    /\ result = BoolValue(TRUE)

Comparisons == {"==", "!=", "<", "<=", ">", ">="}

\* C8: every comparison between a Time and a DateTime, in either operand
\* order, gives the result of the same comparison with the Time replaced by
\* the DateTime of that time on 1.1.0001.
C8_TimePromotion ==
    (/\ op \in Comparisons
     /\ {lhs.t, rhs.t} = {"time", "datetime"})
    => result = binary_evaluate(op, Promoted(lhs), Promoted(rhs))

\* the calendar month that lies `shift` months after the month of x
TargetYear(x, shift) == (x.year * 12 + (x.month - 1) + shift) \div 12

TargetMonth(x, shift) == ((x.year * 12 + (x.month - 1) + shift) % 12) + 1

\* C9: adding or subtracting a timedelta of years and months only to a Date
\* or DateTime yields the source day, clamped to the last day of the target
\* month, in the month that many calendar months away, at the same time of
\* day.
C9_CalendarShift ==
    (/\ op \in {"+", "-"}
     /\ IsDateLike(lhs)
     /\ OnlyYearsAndMonths(rhs))
    => LET shift == IF op = "+" THEN total_months(rhs) ELSE -total_months(rhs)
           year == TargetYear(lhs, shift)
           month == TargetMonth(lhs, shift)
           source == IF lhs.t = "date" THEN DateAtMidnight(lhs) ELSE lhs
       IN  (year >= MINYEAR /\ year <= MAXYEAR)
           => result = DateTimeValue(Min(lhs.day, monthrange(year, month)),
                                     month, year,
                                     source.hour, source.minute, source.second)

IsIntegerDivision == op = "/" /\ lhs.t = "int" /\ rhs.t = "int" /\ rhs.v # 0

\* C10 as stated: a / b truncates toward zero, the remainder a - q*b is
\* smaller than b in magnitude and is zero or has the sign of a.
C10_Truncation ==
    IsIntegerDivision
    => /\ result.t = "int"
       /\ LET r == lhs.v - result.v * rhs.v
          IN  Abs(r) < Abs(rhs.v) /\ (r = 0 \/ Sign(r) = Sign(lhs.v))

\* C10 amended: a / b rounds toward negative infinity, the remainder
\* a - q*b is smaller than b in magnitude and is zero or has the sign of b.
C10_Floor ==
    IsIntegerDivision
    => /\ result.t = "int"
       /\ LET r == lhs.v - result.v * rhs.v
          IN  Abs(r) < Abs(rhs.v) /\ (r = 0 \/ Sign(r) = Sign(rhs.v))

\* (0 - 7) / 2 was evaluated, and is -4
C10_Witness ==
    /\ op = "/"
    /\ lhs = IntValue(-7)
    /\ rhs = IntValue(2)
    /\ result = IntValue(-4)

\* C11: a division by the integer 0, of an integer or of a timedelta, raises
\* an ExecutionError carrying the token of the / operator, and no operator
\* lets a failure of another kind out.
C11_DivisionByZero ==
    /\ (op = "/" /\ rhs = IntValue(0) /\ (IsInt(lhs) \/ lhs.t = "timedelta"))
           => result = ExecutionError("/")
    /\ (op \in Operators /\ IsRaise(result)) => result.exc = "ExecutionError"

\* C12: a call with a number of arguments other than the number of declared
\* parameters raises an ExecutionError, and no statement of the function's
\* body executes.
C12_ArityMismatch ==
    \A i \in 1..Len(env.trace) :
        (env.trace[i].e = "arity"
         /\ env.trace[i].arguments # env.trace[i].parameters)
        => /\ status = "raised"
           /\ outcome.exc = "ExecutionError"
           /\ \A j \in i + 1..Len(env.trace) : env.trace[j].e # "statement"

\* zero-like values: the integer 0 and the default-constructed timedelta
ZeroLike(x) == x = IntValue(0) \/ x = ZeroTimedelta

\* C13: where a value is coerced to a boolean, here the operands of | and &,
\* it counts as false exactly when it is zero-like and as true otherwise.
C13_BooleanCoercion ==
    /\ op = "|" => result = BoolValue(~ZeroLike(lhs) \/ ~ZeroLike(rhs))
    /\ op = "&" => result = BoolValue(~ZeroLike(lhs) /\ ~ZeroLike(rhs))

\* the topmost scope of a stack that declares identifier, 0 when none does
Declaring(scope_stack, identifier) ==
    LET found == {i \in 1..Len(scope_stack) :
                      identifier \in DOMAIN scope_stack[i].variables}
    IN  IF found = {} THEN 0 ELSE CHOOSE i \in found : \A j \in found : j <= i

\* the i-th event gives the variable identifier a value
Assigns(i, identifier) ==
    \/ env.trace[i].e \in {"assign", "iteration"}
       /\ env.trace[i].identifier = identifier
    \/ env.trace[i].e = "bind" /\ env.trace[i].parameter = identifier

\* C14: reading a variable fails with an ExecutionError when no scope
\* declares it and when the topmost scope declaring it holds it
\* uninitialized; a read that succeeds gives the value of that scope, and
\* the variable has been assigned before.
C14_ReadNeedsAssignment ==
    \A i \in 1..Len(env.trace) :
        env.trace[i].e = "read" =>
            LET event == env.trace[i]
                top == Declaring(event.scope_stack, event.identifier)
            IN  IF top = 0
                THEN event.value = ExecutionError(event.identifier)
                ELSE IF event.scope_stack[top].variables[event.identifier]
                            = NoneValue
                THEN event.value = ExecutionError(event.identifier)
                ELSE /\ event.value =
                           event.scope_stack[top].variables[event.identifier]
                     /\ \E j \in 1..i - 1 : Assigns(j, event.identifier)

\* a parameter declared and not yet assigned is read while a variable of
\* the same name holds a value in the scope below: the read fails
C14_Witness ==
    \E event \in Events :
        /\ event.e = "read"
        /\ event.value = ExecutionError(event.identifier)
        /\ Len(event.scope_stack) = 2
        /\ event.identifier \in DOMAIN event.scope_stack[1].variables
        /\ event.identifier \in DOMAIN event.scope_stack[2].variables
        /\ event.scope_stack[1].variables[event.identifier] # NoneValue
        /\ event.scope_stack[2].variables[event.identifier] = NoneValue

\* C15: an assignment changes the binding of its variable in the topmost
\* scope that declares it and nothing else; with no declaring scope it
\* fails with an ExecutionError and leaves the environment as it was; a
\* declaration and a loop variable change the topmost scope only.
C15_AssignmentFrame ==
    \A i \in 1..Len(env.trace) :
        LET event == env.trace[i]
        IN  /\ event.e = "assign" =>
                   LET top == Declaring(event.before, event.identifier)
                   IN  IF top = 0
                       THEN /\ event.after = event.before
                            /\ i = Len(env.trace)
                            /\ env.raised = ExecutionError(event.identifier)
                            /\ env.scope_stack = event.before
                       ELSE event.after =
                                [event.before EXCEPT
                                   ![top].variables =
                                       (event.identifier :> event.value) @@ @]
            /\ event.e = "declare" =>
                   /\ Len(event.after) = Len(event.before)
                   /\ \A k \in 1..Len(event.before) - 1 :
                          event.after[k] = event.before[k]
                   /\ event.after[Len(event.after)] =
                          [event.before[Len(event.before)] EXCEPT
                             !.variables = (event.identifier :> NoneValue) @@ @]
            /\ event.e = "iteration" =>
                   /\ Len(event.after) = Len(event.before) + 1
                   /\ SubSeq(event.after, 1, Len(event.before)) = event.before

\* inside an if body a variable of an outer scope was assigned under a
\* declaration of another name, and a later assignment found no declaration
C15_Witness ==
    /\ \E event \in Events :
           /\ event.e = "assign"
           /\ Declaring(event.before, event.identifier) \in
                  1..Len(event.before) - 1
           /\ event.after # event.before
    /\ \E event \in Events :
           event.e = "assign" /\ Declaring(event.before, event.identifier) = 0

\* C16: the scope stack is never empty: the evaluator does not pop the
\* global scope, and a pop at depth 1 fails and leaves the stack as it is.
C16_GlobalScopeStays ==
    /\ Depth(env) >= 1
    /\ \A event \in Exits : event.before >= 1 /\ event.after >= 1
    /\ Depth(env) = 1 =>
           /\ Raised(pop_scope(env))
           /\ pop_scope(env).scope_stack = env.scope_stack

\* a function call has returned to the global scope, popping its own
C16_Witness ==
    /\ Depth(env) = 1
    /\ ~Raised(env)
    /\ \E event \in Exits : event.node = "FunctionCall" /\ event.after = 1

(***************************************************************************)
(* source_readers.py: the FileReader, as the lexer uses it.  The source is *)
(* held as runs of equal characters, [c |-> character, n |-> how many], a  *)
(* character being a string of length one; run and used say where in the   *)
(* runs the position is, absolute_pos counts the characters consumed.      *)
(***************************************************************************)
FileReader(source) ==
    [source |-> source, run |-> 1, used |-> 0, absolute_pos |-> 0]

\* peek(): the next character, '' at the end of the file
FileReader_peek(reader) ==
    IF reader.run > Len(reader.source) THEN "" ELSE reader.source[reader.run].c

\* get(n): consume the next n characters, fewer when the file ends
FileReader_get(reader, n) ==
    LET RECURSIVE read(_, _)
        read(r, k) ==
            IF k = 0 \/ r.run > Len(r.source) THEN r
            ELSE LET left == r.source[r.run].n - r.used
                 IN  IF k < left
                     THEN [r EXCEPT !.used = @ + k, !.absolute_pos = @ + k]
                     ELSE read([r EXCEPT !.run = @ + 1, !.used = 0,
                                         !.absolute_pos = @ + left],
                               k - left)
    IN  read(reader, n)

FileReader_ended(reader) == FileReader_peek(reader) = ""

(***************************************************************************)
(* lexical_analysis.py: character classes, tokens and the sub-lexers.  A   *)
(* call on a reader gives the reader after it, the token returned or the   *)
(* error raised, and whether a lexical warning was reported.               *)
(***************************************************************************)
MAX_IDENTIFIER_LENGTH == 256

MAX_NUMBER_LITERAL_LENGTH == 256

MAX_STRING_LITERAL_LENGTH == 4096

MAX_TIMEDELTA_LITERAL_LENGTH == 7 * 256

MAX_SKIPPABLE_CHARACTERS_LENGTH == 65536

MAX_COMMENT_LENGTH == 16384

\* str.isdigit, with the value int() gives the digit
digits ==
    ("0" :> 0) @@ ("1" :> 1) @@ ("2" :> 2) @@ ("3" :> 3) @@ ("4" :> 4)
    @@ ("5" :> 5) @@ ("6" :> 6) @@ ("7" :> 7) @@ ("8" :> 8) @@ ("9" :> 9)

isdigit(character) == character \in DOMAIN digits

\* str.isalpha, on the letters the sources are written in
isalpha(character) ==
    character \in {"a", "b", "c", "d", "e", "f", "g", "h", "i", "j", "k", "l",
                   "m", "n", "o", "p", "q", "r", "s", "t", "u", "v", "w", "x",
                   "y", "z", "Y", "M", "W", "D"}

is_white(character) == character \in {" ", "\n", "\t"}

is_skippable(character) == is_white(character) \/ character = "#"

is_identifier_middle(character) ==
    isalpha(character) \/ isdigit(character) \/ character = "_"

keyword_token_type_map ==
    (<<"f", "u", "n">> :> "FUN") @@ (<<"v", "a", "r">> :> "VAR")
    @@ (<<"i", "f">> :> "IF") @@ (<<"e", "l", "s", "e">> :> "ELSE")
    @@ (<<"f", "r", "o", "m">> :> "FROM")
    @@ (<<"p", "r", "i", "n", "t">> :> "PRINT")
    @@ (<<"r", "e", "t", "u", "r", "n">> :> "RETURN")
    @@ (<<"t", "o">> :> "TO") @@ (<<"b", "y">> :> "BY") @@ (<<"a", "s">> :> "AS")
    @@ (<<"y", "e", "a", "r", "s">> :> "YEARS")
    @@ (<<"m", "o", "n", "t", "h", "s">> :> "MONTHS")
    @@ (<<"w", "e", "e", "k", "s">> :> "WEEKS")
    @@ (<<"d", "a", "y", "s">> :> "DAYS")
    @@ (<<"h", "o", "u", "r", "s">> :> "HOURS")
    @@ (<<"m", "i", "n", "u", "t", "e", "s">> :> "MINUTES")
    @@ (<<"s", "e", "c", "o", "n", "d", "s">> :> "SECONDS")

ambiguous_binary_token_type_map ==
    ("=" :> <<"ASSIGN", "EQUALS">>) @@ ("!" :> <<"NOT", "NOT_EQUALS">>)
    @@ (">" :> <<"GREATER", "GREATER_OR_EQUAL">>)
    @@ ("<" :> <<"LESS", "LESS_OR_EQUAL">>)

unambiguous_singular_token_type_map ==
    (";" :> "SEMICOLON") @@ ("(" :> "LEFT_PARENTHESIS")
    @@ (")" :> "RIGHT_PARENTHESIS") @@ ("{" :> "LEFT_BRACKET")
    @@ ("}" :> "RIGHT_BRACKET") @@ ("." :> "ACCESS") @@ ("|" :> "LOGICAL_OR")
    @@ ("&" :> "LOGICAL_AND") @@ ("+" :> "PLUS") @@ ("-" :> "MINUS")
    @@ ("*" :> "MULTIPLICATION") @@ ("/" :> "DIVISION") @@ ("," :> "COMMA")

Token(token_type, absolute_pos, value) ==
    [t |-> "Token", type |-> token_type, absolute_pos |-> absolute_pos,
     value |-> value]

\* what a get() gives when it returns a token
Got(reader, token, warning) ==
    [reader |-> reader, token |-> token, warning |-> warning]

\* make_error: report the error and raise LexicalError
make_error(reader) == Got(reader, Raise("LexicalError"), FALSE)

IdentifierSubLexer_get(reader) ==
    LET RECURSIVE loop(_, _, _)
        loop(r, identifier, counter) ==
            IF ~is_identifier_middle(FileReader_peek(r))
            THEN Got(r,
                     IF identifier \in DOMAIN keyword_token_type_map
                     THEN Token(keyword_token_type_map[identifier],
                                reader.absolute_pos, NoneValue)
                     ELSE Token("IDENTIFIER", reader.absolute_pos, identifier),
                     FALSE)
            ELSE IF counter + 1 > MAX_IDENTIFIER_LENGTH THEN make_error(r)
            ELSE loop(FileReader_get(r, 1),
                      Append(identifier, FileReader_peek(r)), counter + 1)
    IN  loop(FileReader_get(reader, 1), <<FileReader_peek(reader)>>, 1)

\* digits_to_int(number_string + digit)
NumberLiteralSubLexer_get(reader) ==
    LET RECURSIVE loop(_, _, _)
        loop(r, number, counter) ==
            IF ~isdigit(FileReader_peek(r))
            THEN Got(r, Token("NUMBER_LITERAL", reader.absolute_pos, number),
                     FALSE)
            ELSE IF counter + 1 > MAX_NUMBER_LITERAL_LENGTH THEN make_error(r)
            ELSE loop(FileReader_get(r, 1),
                      10 * number + digits[FileReader_peek(r)], counter + 1)
    IN  IF FileReader_peek(reader) = "0"
        THEN Got(FileReader_get(reader, 1),
                 Token("NUMBER_LITERAL", reader.absolute_pos, 0), FALSE)
        ELSE loop(FileReader_get(reader, 1), digits[FileReader_peek(reader)], 1)

\* _get_two_digits and _check_for_character, one after the other as the
\* pattern says ("d" for a digit): the digits read, or the error raised at
\* the first character that does not fit, which is not consumed
NumericalLiteralSubLexer_read(reader, pattern) ==
    LET RECURSIVE scan(_, _, _)
        scan(r, i, read) ==
            IF i > Len(pattern) THEN [reader |-> r, raised |-> FALSE, read |-> read]
            ELSE IF pattern[i] = "d" /\ isdigit(FileReader_peek(r))
            THEN scan(FileReader_get(r, 1), i + 1,
                      Append(read, digits[FileReader_peek(r)]))
            ELSE IF pattern[i] # "d" /\ FileReader_peek(r) = pattern[i]
            THEN scan(FileReader_get(r, 1), i + 1, read)
            ELSE [reader |-> r, raised |-> TRUE, read |-> read]
    IN  scan(reader, 1, <<>>)

\* _get_hour_token and _get_date_or_datetime_token after the number and
\* the separator.  The value classes raise ValueError for a date or a time
\* that does not exist, which the lexer does not catch.
NumericalLiteralSubLexer_value(reader, start, first_value, separator) ==
    LET time == NumericalLiteralSubLexer_read(reader, <<"d", "d", ":", "d", "d">>)
        date == NumericalLiteralSubLexer_read(
                    reader, <<"d", "d", ".", "d", "d", "d", "d">>)
        month == 10 * date.read[1] + date.read[2]
        year == 1000 * date.read[3] + 100 * date.read[4]
                + 10 * date.read[5] + date.read[6]
        clock == NumericalLiteralSubLexer_read(
                     FileReader_get(date.reader, 1),
                     <<"d", "d", ":", "d", "d", ":", "d", "d">>)
        ValidTime(hour, minute, second) ==
            hour < 24 /\ minute < 60 /\ second < 60
    IN  IF separator = ":"
        THEN IF time.raised THEN make_error(time.reader)
             ELSE IF ~ValidTime(first_value, 10 * time.read[1] + time.read[2],
                                10 * time.read[3] + time.read[4])
             THEN Got(time.reader, Raise("ValueError"), FALSE)
             ELSE Got(time.reader,
                      Token("TIME_LITERAL", start,
                            TimeValue(first_value,
                                      10 * time.read[1] + time.read[2],
                                      10 * time.read[3] + time.read[4])),
                      FALSE)
        ELSE IF date.raised THEN make_error(date.reader)
        ELSE IF FileReader_peek(date.reader) # "~"
        THEN IF ~ValidDate(year, month, first_value)
             THEN Got(date.reader, Raise("ValueError"), FALSE)
             ELSE Got(date.reader,
                      Token("DATE_LITERAL", start,
                            DateValue(first_value, month, year)),
                      FALSE)
        ELSE IF clock.raised THEN make_error(clock.reader)
        ELSE IF ~ValidDate(year, month, first_value)
                \/ ~ValidTime(10 * clock.read[1] + clock.read[2],
                              10 * clock.read[3] + clock.read[4],
                              10 * clock.read[5] + clock.read[6])
        THEN Got(clock.reader, Raise("ValueError"), FALSE)
        ELSE Got(clock.reader,
                 Token("DATETIME_LITERAL", start,
                       DateTimeValue(first_value, month, year,
                                     10 * clock.read[1] + clock.read[2],
                                     10 * clock.read[3] + clock.read[4],
                                     10 * clock.read[5] + clock.read[6])),
                 FALSE)

NumericalLiteralSubLexer_get(reader) ==
    LET number == NumberLiteralSubLexer_get(reader)
        after == number.reader
        second == isdigit(FileReader_peek(after))
        next == IF second THEN FileReader_get(after, 1) ELSE after
        first_value == IF second THEN digits[FileReader_peek(after)]
                       ELSE number.token.value
    IN  IF IsRaise(number.token) THEN number
        ELSE IF ~second /\ number.token.value < 10 THEN number
        ELSE IF FileReader_peek(next) \in {".", ":"}
        THEN NumericalLiteralSubLexer_value(
                 FileReader_get(next, 1), reader.absolute_pos, first_value,
                 FileReader_peek(next))
        ELSE IF isdigit(FileReader_peek(next)) THEN make_error(next)
        ELSE Got(next, number.token, FALSE)

\* The value of a string literal is held as runs of equal characters, like
\* the source.  The turns of the loop over a run of equal characters, none
\* of them a bound or an escape, are taken together: each adds 1 to counter
\* and one character to string_value.  At the end of the file peek() and
\* get() give '' turn after turn, until counter passes the maximum.
StringLiteralSubLexer_get(reader) ==
    LET RECURSIVE loop(_, _, _)
        loop(r, string_value, counter) ==
            LET next_character == FileReader_peek(r)
                escaped == FileReader_get(r, 1)
                turns == Min(r.source[r.run].n - r.used,
                             MAX_STRING_LITERAL_LENGTH - counter)
            IN  IF next_character = "\""
                THEN Got(FileReader_get(r, 1),
                         Token("STRING_LITERAL", reader.absolute_pos,
                               string_value),
                         FALSE)
                ELSE IF FileReader_ended(r) THEN make_error(r)
                ELSE IF counter + 1 > MAX_STRING_LITERAL_LENGTH
                THEN make_error(r)
                ELSE IF next_character = "\\"
                THEN loop(FileReader_get(escaped, 1),
                          IF FileReader_ended(escaped) THEN string_value
                          ELSE Append(string_value,
                                      [c |-> FileReader_peek(escaped), n |-> 1]),
                          counter + 1)
                ELSE loop(FileReader_get(r, turns),
                          Append(string_value, [c |-> next_character, n |-> turns]),
                          counter + turns)
    IN  loop(FileReader_get(reader, 1), <<>>, 0)

TimedeltaLiteralSubLexer_get(reader) ==
    LET or0(value) == IF value = NoneValue THEN 0 ELSE value.v
        token(values_map) ==
            Token("TIMEDELTA_LITERAL", reader.absolute_pos,
                  TimedeltaValue(or0(values_map["Y"]), or0(values_map["M"]),
                                 or0(values_map["W"]), or0(values_map["D"]),
                                 or0(values_map["h"]), or0(values_map["m"]),
                                 or0(values_map["s"])))
        RECURSIVE loop(_, _, _)
        loop(r, values_map, counter) ==
            LET next_character == FileReader_peek(r)
                number == NumberLiteralSubLexer_get(r)
                unit == FileReader_peek(number.reader)
            IN  IF next_character = "'"
                THEN Got(FileReader_get(r, 1), token(values_map), FALSE)
                ELSE IF counter + 1 > MAX_TIMEDELTA_LITERAL_LENGTH
                THEN make_error(r)
                ELSE IF isdigit(next_character)
                THEN IF IsRaise(number.token) THEN number
                     ELSE IF unit \notin DOMAIN values_map
                     THEN make_error(number.reader)
                     ELSE IF values_map[unit] # NoneValue
                     THEN make_error(number.reader)
                     ELSE loop(FileReader_get(number.reader, 1),
                               [values_map EXCEPT
                                  ![unit] = IntValue(number.token.value)],
                               counter + 1)
                ELSE IF is_white(next_character)
                THEN loop(FileReader_get(r, 1), values_map, counter + 1)
                ELSE IF FileReader_ended(r)
                THEN Got(FileReader_get(r, 1), token(values_map), TRUE)
                ELSE make_error(r)
    IN  loop(FileReader_get(reader, 1),
             [unit \in {"Y", "M", "W", "D", "h", "m", "s"} |-> NoneValue], 0)

(***************************************************************************)
(* lexical_analysis.py: the Lexer.  The turns of a skipping loop over a    *)
(* run of equal characters are taken together: each adds 1 to counter and  *)
(* consumes one character.                                                 *)
(***************************************************************************)
\* the reader after the comment and the count returned, or the error raised
_skip_comment(reader) ==
    LET RECURSIVE loop(_, _)
        loop(r, counter) ==
            LET turns == Min(r.source[r.run].n - r.used,
                             MAX_COMMENT_LENGTH - counter)
            IN  IF FileReader_peek(r) = "#"
                THEN [reader |-> FileReader_get(r, 1), counter |-> counter + 2,
                      raised |-> FALSE, warning |-> FALSE]
                ELSE IF counter + 1 > MAX_COMMENT_LENGTH
                THEN [reader |-> r, counter |-> counter + 1, raised |-> TRUE,
                      warning |-> FALSE]
                ELSE IF FileReader_ended(r)
                THEN [reader |-> r, counter |-> counter + 1 + 1,
                      raised |-> FALSE, warning |-> TRUE]
                ELSE loop(FileReader_get(r, turns), counter + turns)
    IN  loop(FileReader_get(reader, 1), 0)

_skip_to_unskippable(reader) ==
    LET RECURSIVE loop(_, _, _)
        loop(r, counter, warning) ==
            LET comment == _skip_comment(r)
                turns == Min(r.source[r.run].n - r.used,
                             MAX_SKIPPABLE_CHARACTERS_LENGTH - counter)
            IN  IF ~is_skippable(FileReader_peek(r))
                THEN [reader |-> r, raised |-> FALSE, warning |-> warning]
                ELSE IF counter >= MAX_SKIPPABLE_CHARACTERS_LENGTH
                THEN [reader |-> r, raised |-> TRUE, warning |-> warning]
                ELSE IF FileReader_peek(r) = "#"
                THEN IF comment.raised
                     THEN [reader |-> comment.reader, raised |-> TRUE,
                           warning |-> warning]
                     ELSE loop(comment.reader, counter + comment.counter,
                               warning \/ comment.warning)
                ELSE loop(FileReader_get(r, turns), counter + turns, warning)
    IN  loop(reader, 0, FALSE)

\* with the AmbiguousBinarySubLexer and the UnambiguousSingularSubLexer
_tokenize(reader) ==
    LET first_character == FileReader_peek(reader)
        second == FileReader_get(reader, 1)
    IN  IF FileReader_ended(reader)
        THEN Got(reader, Token("END", reader.absolute_pos, NoneValue), FALSE)
        ELSE IF isalpha(first_character) \/ first_character = "_"
        THEN IdentifierSubLexer_get(reader)
        ELSE IF isdigit(first_character)
        THEN NumericalLiteralSubLexer_get(reader)
        ELSE IF first_character = "\""
        THEN StringLiteralSubLexer_get(reader)
        ELSE IF first_character = "'"
        THEN TimedeltaLiteralSubLexer_get(reader)
        ELSE IF first_character \in DOMAIN ambiguous_binary_token_type_map
        THEN IF FileReader_peek(second) = "="
             THEN Got(FileReader_get(second, 1),
                      Token(ambiguous_binary_token_type_map[first_character][2],
                            reader.absolute_pos, NoneValue),
                      FALSE)
             ELSE Got(second,
                      Token(ambiguous_binary_token_type_map[first_character][1],
                            reader.absolute_pos, NoneValue),
                      FALSE)
        ELSE IF first_character \in DOMAIN unambiguous_singular_token_type_map
        THEN Got(second,
                 Token(unambiguous_singular_token_type_map[first_character],
                       reader.absolute_pos, NoneValue),
                 FALSE)
        ELSE make_error(reader)

\* a get() that counts a character of the file for the END token too
Lexer_get_counting_end(reader) ==
    LET skipped == IF is_skippable(FileReader_peek(reader))
                   THEN _skip_to_unskippable(reader)
                   ELSE [reader |-> reader, raised |-> FALSE, warning |-> FALSE]
        token == _tokenize(skipped.reader)
        counted == IF IsRaise(token.token) THEN token.reader
                   ELSE IF token.token.type = "END"
                        THEN [token.reader EXCEPT !.absolute_pos = @ + 1]
                        ELSE token.reader
    IN  IF skipped.raised THEN make_error(skipped.reader)
        ELSE Got(counted, token.token, skipped.warning \/ token.warning)

Lexer_get(reader) ==
    LET skipped == IF is_skippable(FileReader_peek(reader))
                   THEN _skip_to_unskippable(reader)
                   ELSE [reader |-> reader, raised |-> FALSE, warning |-> FALSE]
        token == _tokenize(skipped.reader)
    IN  IF skipped.raised THEN make_error(skipped.reader)
        ELSE Got(token.reader, token.token, skipped.warning \/ token.warning)

(***************************************************************************)
(* A Lexer on a FileReader over a source, and get() called on it again and *)
(* again, until it raises.                                                 *)
(***************************************************************************)
MaxLength == 3

MaxNumberLiteral == 12

MaxGets == 5

\* a text, character by character, as runs of one character each
Text(characters) ==
    [i \in 1..Len(characters) |-> [c |-> characters[i], n |-> 1]]

\* n times the character c; nothing when n is 0
Run(c, n) == IF n = 0 THEN <<>> ELSE <<[c |-> c, n |-> n]>>

Characters == {"a", "1", "0", ".", ":", " ", "#", "\"", "'", "D", "\\", "="}

\* every text of at most MaxLength characters
ShortSources ==
    UNION {{Text(characters) : characters \in [1..length -> Characters]} :
               length \in 0..MaxLength}

\* the decimal digits of n
Decimal(n) ==
    LET RECURSIVE digits_of(_)
        digits_of(k) ==
            IF k < 10 THEN <<CHOOSE c \in DOMAIN digits : digits[c] = k>>
            ELSE Append(digits_of(k \div 10),
                        CHOOSE c \in DOMAIN digits : digits[c] = k % 10)
    IN  digits_of(n)

\* N.seconds, N.5, N.05.2020, N.05.2020~10:30:00, N:30:00 and N alone
NumberSources ==
    {Text(Decimal(n) \o rest) :
        n \in 0..MaxNumberLiteral,
        rest \in {<<>>, <<".", "s", "e", "c", "o", "n", "d", "s">>, <<".", "5">>,
                  <<".", "0", "5", ".", "2", "0", "2", "0">>,
                  <<".", "0", "5", ".", "2", "0", "2", "0", "~", "1", "0", ":",
                    "3", "0", ":", "0", "0">>,
                  <<":", "3", "0", ":", "0", "0">>}}

\* white space, a comment, white space again and then a or the end of the
\* file, of lengths around the two maximums
SkippableSources ==
    {Run(" ", before) \o comment \o Run("\n", after) \o rest :
        before \in {0, 1, MAX_SKIPPABLE_CHARACTERS_LENGTH - MAX_COMMENT_LENGTH,
                    MAX_SKIPPABLE_CHARACTERS_LENGTH - 1,
                    MAX_SKIPPABLE_CHARACTERS_LENGTH},
        comment \in {<<>>} \cup
            {Run("#", 1) \o Run("x", inside) \o Run("#", closed) :
                inside \in {0, 2, MAX_COMMENT_LENGTH - 2, MAX_COMMENT_LENGTH,
                            MAX_COMMENT_LENGTH + 1},
                closed \in {0, 1}},
        after \in {0, 1, 2},
        rest \in {<<>>, Text(<<"a">>)}}

Sources == ShortSources \cup NumberSources \cup SkippableSources

InitLexer ==
    /\ source_reader \in {FileReader(source) : source \in Sources}
    /\ tokens = <<>>
    /\ program = <<>> /\ pc = 1 /\ env = Environment
    /\ status = "none" /\ outcome = NoneValue
    /\ lhs = NoneValue /\ rhs = NoneValue /\ op = "none"
    /\ result = NoneValue /\ back = NoneValue

\* Lexer(source_reader).get()
Get ==
    /\ Len(tokens) < MaxGets
    /\ IF tokens = <<>> THEN TRUE ELSE ~IsRaise(tokens[Len(tokens)].token)
    /\ \E got \in {Lexer_get(source_reader)} :
           /\ source_reader' = got.reader
           /\ tokens' = Append(tokens, [token |-> got.token,
                                        warning |-> got.warning,
                                        before |-> source_reader.absolute_pos,
                                        after |-> got.reader.absolute_pos])
    /\ UNCHANGED <<program, pc, env, status, outcome, lhs, rhs, op, result, back>>

NextLexer == Get

SpecLexer == InitLexer /\ [][NextLexer]_vars

(***************************************************************************)
(* The claims about the lexer.                                             *)
(***************************************************************************)
\* the i-th get() returned the END token
ReturnedEnd(i) ==
    IF IsRaise(tokens[i].token) THEN FALSE ELSE tokens[i].token.type = "END"

\* C17: once get() has returned END, every further get() returns END, at
\* the same position, and the reader does not advance.
C17_EndIsFinal ==
    \A i \in 1..Len(tokens) : \A j \in (i + 1)..Len(tokens) :
        ReturnedEnd(i) =>
            /\ ReturnedEnd(j)
            /\ tokens[j].token = tokens[i].token
            /\ tokens[j].before = tokens[i].after
            /\ tokens[j].after = tokens[i].after

\* a token, then END after skipped characters, then END twice more
C17_Witness ==
    /\ Len(tokens) >= 4
    /\ ~IsRaise(tokens[1].token) /\ ~ReturnedEnd(1)
    /\ ReturnedEnd(2) /\ tokens[2].after > tokens[2].before
    /\ ReturnedEnd(3) /\ ReturnedEnd(4)

\* the characters of a source whose runs are single characters
Plain(source) == \A k \in DOMAIN source : source[k].n = 1

\* the file ends inside a comment, a string or a timedelta literal that
\* opens at the character `open` of the source and that nothing else is
\* wrong with: no escape in the string, whole components in the timedelta
UnclosedAt(source, open) ==
    LET inside == (open + 1)..Len(source)
        unit(k) == source[k].c \in {"Y", "M", "W", "D", "h", "m", "s"}
    IN  /\ open \in DOMAIN source
        /\ source[open].c \in {"#", "\"", "'"}
        /\ \A k \in inside : source[k].c # source[open].c
        /\ source[open].c = "\"" => \A k \in inside : source[k].c # "\\"
        /\ source[open].c = "'" =>
               /\ \A k \in inside :
                      \/ is_white(source[k].c)
                      \/ isdigit(source[k].c) /\ k + 1 \in inside /\ unit(k + 1)
                      \/ unit(k) /\ k - 1 \in inside /\ isdigit(source[k - 1].c)
               /\ \A k, l \in inside :
                      unit(k) /\ unit(l) /\ source[k].c = source[l].c => k = l

\* C18: a get() that reaches the end of the file inside an unclosed
\* comment, string or timedelta literal gives a warning and no LexicalError:
\* the comment is skipped (the get() returns END), the string or timedelta is
\* returned as a token with the content read so far, and the get() after it
\* returns END.
C18_UnclosedAtEndOfFile ==
    LET source == source_reader.source
    IN  Plain(source) =>
        \A i \in 1..Len(tokens) :
            LET first == tokens[i].before + 1
                white == {k \in first..Len(source) :
                             \A l \in first..k : is_white(source[l].c)}
                open == first + Cardinality(white)
                content == [k \in 1..(Len(source) - open) |-> source[open + k]]
            IN  UnclosedAt(source, open) =>
                    /\ ~IsRaise(tokens[i].token)
                    /\ tokens[i].warning
                    /\ tokens[i].after = Len(source)
                    /\ source[open].c = "#" => tokens[i].token.type = "END"
                    /\ source[open].c = "\"" =>
                           /\ tokens[i].token.type = "STRING_LITERAL"
                           /\ tokens[i].token.value = content
                    /\ source[open].c = "'" =>
                           tokens[i].token.type = "TIMEDELTA_LITERAL"
                    /\ i < Len(tokens) => ReturnedEnd(i + 1)

\* the number that the digits first..last of a source spell
NumberOf(source, first, last) ==
    LET RECURSIVE number_of(_)
        number_of(k) ==
            IF k < first THEN 0
            ELSE 10 * number_of(k - 1) + digits[source[k].c]
    IN  number_of(last)

\* C19: a get() that starts at the digits of a non-negative integer N
\* followed by a `.` consumes the `.` only when two digits and another `.`
\* follow it; otherwise it returns NUMBER_LITERAL N and leaves the `.` to the
\* next get(), which returns ACCESS, so that N.seconds gives NUMBER_LITERAL,
\* ACCESS, SECONDS.
C19_AccessAfterNumber ==
    LET source == source_reader.source
    IN  Plain(source) =>
        \A i \in 1..Len(tokens) :
            LET first == tokens[i].before + 1
                run == {k \in first..Len(source) :
                           \A l \in first..k : isdigit(source[l].c)}
                last == first + Cardinality(run) - 1
                date == /\ last + 4 <= Len(source)
                        /\ isdigit(source[last + 2].c)
                        /\ isdigit(source[last + 3].c)
                        /\ source[last + 4].c = "."
                unit == [k \in 1..(Len(source) - last - 1) |->
                            source[last + 1 + k].c]
            IN  (/\ run # {}
                 /\ source[first].c = "0" => last = first
                 /\ last + 1 <= Len(source)
                 /\ source[last + 1].c = "."
                 /\ ~date) =>
                    /\ ~IsRaise(tokens[i].token)
                    /\ tokens[i].token.type = "NUMBER_LITERAL"
                    /\ tokens[i].token.value = NumberOf(source, first, last)
                    /\ tokens[i].after = last
                    /\ i + 1 <= Len(tokens) =>
                           /\ ~IsRaise(tokens[i + 1].token)
                           /\ tokens[i + 1].token.type = "ACCESS"
                           /\ tokens[i + 1].after = last + 1
                    /\ (i + 2 <= Len(tokens)
                          /\ unit = <<"s", "e", "c", "o", "n", "d", "s">>) =>
                           /\ ~IsRaise(tokens[i + 2].token)
                           /\ tokens[i + 2].token.type = "SECONDS"

\* The run of white space and comments that a source starts with: its
\* length, comment bounds and content included, whether the content of one
\* of its comments is longer than MAX_COMMENT_LENGTH, and the place of the
\* character after it.  Each comment bound of the source is a run of its own.
SkippedRun(source) ==
    LET RECURSIVE scan(_, _, _, _, _)
        scan(k, inside, content, length, long) ==
            IF k > Len(source)
            THEN [length |-> length, next |-> k,
                  long |-> long \/ (inside /\ content > MAX_COMMENT_LENGTH)]
            ELSE IF source[k].c = "#"
            THEN scan(k + 1, ~inside, 0, length + 1,
                      long \/ (inside /\ content > MAX_COMMENT_LENGTH))
            ELSE IF inside
            THEN scan(k + 1, TRUE, content + source[k].n,
                      length + source[k].n, long)
            ELSE IF is_white(source[k].c)
            THEN scan(k + 1, FALSE, 0, length + source[k].n, long)
            ELSE [length |-> length, next |-> k, long |-> long]
    IN  scan(1, FALSE, 0, 0, FALSE)

\* C20: when the run of white space and comments before a token is longer
\* than 65 536 characters, whatever it is made of, get() raises a
\* LexicalError; a run of at most 65 536 characters, none of its comments
\* longer than the comment limit, is skipped without error: the reader gets
\* past it, and the get() returns a token when the end of the file or an
\* identifier follows the run.
C20_SkippableLimit ==
    LET source == source_reader.source
        skipped == SkippedRun(source)
        token_follows == IF skipped.next > Len(source) THEN TRUE
                         ELSE source[skipped.next].c = "a"
    IN  (/\ Len(tokens) >= 1
         /\ \A k \in DOMAIN source : source[k].c = "#" => source[k].n = 1) =>
            IF skipped.length > MAX_SKIPPABLE_CHARACTERS_LENGTH
            THEN /\ IsRaise(tokens[1].token)
                 /\ tokens[1].token.exc = "LexicalError"
            ELSE ~skipped.long =>
                     /\ tokens[1].after >= skipped.length
                     /\ token_follows => ~IsRaise(tokens[1].token)

(***************************************************************************)
(* The comparison operators on timedeltas, checked under SpecValues.       *)
(***************************************************************************)
\* C30: on two timedeltas a and b, a > b holds exactly when b < a, a >= b
\* exactly when b <= a, and a <= b exactly when a < b or a == b.
C30_ComparisonsAgree ==
    (lhs.t = "timedelta" /\ rhs.t = "timedelta") =>
        /\ op = ">" => result = binary_evaluate("<", rhs, lhs)
        /\ op = ">=" => result = binary_evaluate("<=", rhs, lhs)
        /\ op = "<=" =>
               result = BoolValue(\/ binary_evaluate("<", lhs, rhs) = BoolValue(TRUE)
                                  \/ binary_evaluate("==", lhs, rhs) = BoolValue(TRUE))

\* x moved by `shift` calendar months, its day of month clamped to the last
\* day of the month it lands in
Clamped(x, shift) ==
    DateTimeValue(Min(x.day, monthrange(TargetYear(x, shift), TargetMonth(x, shift))),
                  TargetMonth(x, shift), TargetYear(x, shift),
                  x.hour, x.minute, x.second)

C26_FromFailure ==
    \A event \in Events :
        event.e = "failure" =>
            /\ event.raised.exc = "ExecutionError"
            /\ event.start.t = "Identifier" =>
                   event.raised = ExecutionError(event.start.name)
            /\ status = "raised" =>
                   outcome.exc = "ExecutionError"

\* the function that a call of `identifier` made on a scope stack runs
Called(scope_stack, identifier) ==
    LET found == {i \in 1..Len(scope_stack) :
                      identifier \in DOMAIN scope_stack[i].functions}
    IN  scope_stack[CHOOSE i \in found : \A j \in found : j <= i]
            .functions[identifier]

\* the expression that a function whose body is one return statement returns
ReturnedExpression(fun_node) ==
    IF Len(fun_node.body.statements) # 1 THEN NoneValue
    ELSE IF fun_node.body.statements[1].t # "ReturnStatement" THEN NoneValue
    ELSE fun_node.body.statements[1].expression

\* C25: a function body resolves its free names through the scope stack of
\* the call: a function that returns a free variable returns the value of
\* the topmost scope declaring it on the stack the call was made on
\* (function, if and from scopes of the caller included), and a function
\* that returns a call of a free function name returns what the function
\* bound to that name at the time of the call returns.
C25_CallTimeScopes ==
    \A event \in Exits :
        event.node = "FunctionCall" =>
            LET fun_node == Called(event.scope_stack, event.function)
                returned == ReturnedExpression(fun_node)
            IN  /\ (/\ returned.t = "Identifier"
                     /\ \A i \in 1..Len(fun_node.parameters) :
                            fun_node.parameters[i] # returned.name) =>
                        LET top == Declaring(event.scope_stack, returned.name)
                        IN  /\ top > 0
                            /\ event.value =
                                   event.scope_stack[top].variables[returned.name]
                /\ (/\ returned.t = "FunctionCall"
                     /\ ReturnedExpression(
                            Called(event.scope_stack, returned.identifier)).t
                          = "Literal") =>
                        event.value =
                            ReturnedExpression(
                                Called(event.scope_stack, returned.identifier)).value

\* the function f that returns the free variable x has been called on the
\* global scope alone and from inside an if or from scope that declares x,
\* and gave two different values; h, that returns k(), gave 1 and then 2
C25_Witness ==
    /\ \E first, second \in Exits :
           /\ first.node = "FunctionCall" /\ second.node = "FunctionCall"
           /\ first.function = "f" /\ second.function = "f"
           /\ Len(first.scope_stack) = 1 /\ Len(second.scope_stack) > 1
           /\ first.value # second.value
           /\ second.value = second.scope_stack[Len(second.scope_stack)].variables["x"]
    /\ \E first, second \in Exits :
           /\ first.node = "FunctionCall" /\ second.node = "FunctionCall"
           /\ first.function = "h" /\ second.function = "h"
           /\ first.value = IntValue(1) /\ second.value = IntValue(2)

\* C29: a from loop ends.  Each step makes the loop value strictly greater,
\* the values bound are start, start + 1 unit, ... whatever the body assigns
\* to the loop variable, and the statement ends when the value is no longer
\* <= end, when the body returns, or when the comparison or the step fails,
\* and then with an ExecutionError.
C29_FromTerminates ==
    /\ \A event \in Exits :
           event.node = "FromStatement" =>
               /\ \A k \in 1..Len(event.values) :
                      /\ event.values[k]
                           = Stepped(event.values[1], event.step, k - 1)
                      /\ LessOrEqualOperator(event.values[k], event.end)
                           = BoolValue(TRUE)
               /\ \A k \in 1..(Len(event.values) - 1) :
                      LessOperator(event.values[k], event.values[k + 1])
                          = BoolValue(TRUE)
               /\ (~event.jumping /\ Len(event.values) > 0) =>
                      LessOrEqualOperator(
                          Stepped(event.values[1], event.step, Len(event.values)),
                          event.end) = BoolValue(FALSE)
    /\ \A event \in Events :
           (event.e = "failure" /\ event.node = "FromStatement") =>
               /\ status = "raised"
               /\ outcome.exc = "ExecutionError"

(***************************************************************************)
(* source_readers.py: the FileReader under its whole interface.  The file  *)
(* object _file is its text, a sequence of characters, with the position   *)
(* read() continues from; _file_pos is the FilePosition the reader reports *)
(* and the two checkpoints are FilePositions or None.                       *)
(***************************************************************************)
\* FilePosition(file_path)
FilePosition == [line_num |-> 1, line_pos |-> 0, absolute_pos |-> 0]

\* FilePosition.advance(characters)
advance(file_pos, characters) ==
    LET RECURSIVE walk(_, _)
        walk(pos, i) ==
            IF i > Len(characters) THEN pos
            ELSE walk(IF characters[i] = "\n"
                      THEN [line_num |-> pos.line_num + 1, line_pos |-> 0,
                            absolute_pos |-> pos.absolute_pos + 1]
                      ELSE [pos EXCEPT !.line_pos = @ + 1,
                                       !.absolute_pos = @ + 1],
                      i + 1)
    IN  walk(file_pos, 1)

\* self._file.read(n) from the position of the file, n >= 0
TextIO_read(file, n) ==
    LET last == Min(Len(file.data), file.position + n)
    IN  [characters |-> SubSeq(file.data, file.position + 1, last),
         file |-> [file EXCEPT !.position = last]]

\* FileReader(file_path) and open() on a file holding data
FileReader_open(data) ==
    [_file |-> [data |-> data, position |-> 0],
     _file_pos |-> FilePosition,
     _backward_checkpoint |-> NoneValue,
     _forward_checkpoint |-> NoneValue]

\* what a method of the reader returned or raised, and the reader after it
Read(reader, returned) == [reader |-> reader, returned |-> returned]

\* peek(n, start_pos); start_pos is None or an int
peek(reader, n, start_pos) ==
    LET position == reader._file.position
        file_size == Len(reader._file.data)
        start == IF start_pos = NoneValue THEN position ELSE start_pos.v
        count == IF n < 0 THEN 0 - n ELSE n
        offset == IF n < 0 THEN (IF start < count THEN 0 ELSE start - count) ELSE start
    IN  IF start < 0 \/ start > file_size
        THEN Read([reader EXCEPT !._file.position = file_size],
                  Raise("ValueError"))
        ELSE Read(reader,
                  TextIO_read([reader._file EXCEPT !.position = offset],
                              count).characters)

\* get(n)
get(reader, n) ==
    IF n < 0 THEN Read(reader, Raise("ValueError"))
    ELSE LET read == TextIO_read(reader._file, n)
         IN  Read([reader EXCEPT
                      !._file = read.file,
                      !._file_pos = advance(@, read.characters)],
                  read.characters)

\* checkpoint()
checkpoint(reader) ==
    [reader EXCEPT !._backward_checkpoint = reader._file_pos]

\* rewind_backward()
rewind_backward(reader) ==
    IF reader._backward_checkpoint # NoneValue
    THEN [reader EXCEPT !._forward_checkpoint = reader._file_pos,
                        !._file_pos = reader._backward_checkpoint]
    ELSE reader

rewind_forward_keeping_anchor(reader) ==
    IF reader._forward_checkpoint # NoneValue
    THEN [reader EXCEPT !._file_pos = reader._forward_checkpoint]
    ELSE reader

\* rewind_forward()
rewind_forward(reader) ==
    IF reader._forward_checkpoint # NoneValue
    THEN [reader EXCEPT !._file_pos = reader._forward_checkpoint,
                        !._forward_checkpoint = NoneValue]
    ELSE reader

\* get_file_pos()
get_file_pos(reader) == reader._file_pos

(***************************************************************************)
(* A FileReader opened on a file, and its methods called on it in any      *)
(* order.  tokens holds the last call: the method, its arguments, the      *)
(* reader before it and what it returned.                                  *)
(***************************************************************************)
MaxText == 2

TextCharacters == {"a", "\n"}

Texts == UNION {[1..length -> TextCharacters] : length \in 0..MaxText}

Sizes == (0 - 1)..MaxText

StartPositions == {NoneValue} \cup {IntValue(k) : k \in (0 - 1)..(MaxText + 1)}

InitReader ==
    /\ source_reader \in {FileReader_open(data) : data \in Texts}
    /\ tokens = <<>>
    /\ program = <<>> /\ pc = 1 /\ env = Environment
    /\ status = "none" /\ outcome = NoneValue
    /\ lhs = NoneValue /\ rhs = NoneValue /\ op = "none"
    /\ result = NoneValue /\ back = NoneValue

\* the call of a method on source_reader
Invoke(method, arguments, read) ==
    /\ source_reader' = read.reader
    /\ tokens' = <<[method |-> method, arguments |-> arguments,
                    before |-> source_reader, returned |-> read.returned]>>
    /\ UNCHANGED <<program, pc, env, status, outcome, lhs, rhs, op, result, back>>

\* source_reader.get(n)
CallGet ==
    \E n \in Sizes : Invoke("get", [n |-> n], get(source_reader, n))

\* source_reader.peek(n, start_pos)
CallPeek ==
    \E n \in Sizes \cup {0 - k : k \in Sizes}, start_pos \in StartPositions :
        Invoke("peek", [n |-> n, start_pos |-> start_pos], peek(source_reader, n, start_pos))

\* source_reader.checkpoint()
CallCheckpoint ==
    Invoke("checkpoint", NoneValue, Read(checkpoint(source_reader), NoneValue))

\* source_reader.rewind_backward()
CallRewindBackward ==
    Invoke("rewind_backward", NoneValue,
           Read(rewind_backward(source_reader), NoneValue))

\* source_reader.rewind_forward()
CallRewindForward ==
    Invoke("rewind_forward", NoneValue,
           Read(rewind_forward(source_reader), NoneValue))

NextReader ==
    \/ CallGet
    \/ CallPeek
    \/ CallCheckpoint
    \/ CallRewindBackward
    \/ CallRewindForward

SpecReader == InitReader /\ [][NextReader]_vars

(***************************************************************************)
(* The claims about the FileReader, checked under SpecReader.              *)
(***************************************************************************)
\* the reader after get(n) for each n of sizes, in order
Gets(reader, sizes) ==
    LET RECURSIVE after(_, _)
        after(r, i) ==
            IF i > Len(sizes) THEN r ELSE after(get(r, sizes[i]).reader, i + 1)
    IN  after(reader, 1)

\* C23: from any state of the reader, checkpoint() records the position P;
\* after gets that reach Q, rewind_backward() makes the position P and the
\* forward anchor Q; rewind_forward() then makes the position Q and clears
\* the anchor, and a second rewind_forward() changes nothing.  Without a
\* checkpoint rewind_backward(), and without a forward anchor
\* rewind_forward(), leave the position as it is.
C23_Rewinds ==
    /\ \A sizes \in UNION {[1..k -> 0..MaxText] : k \in 0..2} :
           LET P == get_file_pos(source_reader)
               read == Gets(checkpoint(source_reader), sizes)
               Q == get_file_pos(read)
               backward == rewind_backward(read)
               forward == rewind_forward(backward)
           IN  /\ checkpoint(source_reader)._backward_checkpoint = P
               /\ get_file_pos(checkpoint(source_reader)) = P
               /\ get_file_pos(backward) = P
               /\ backward._forward_checkpoint = Q
               /\ get_file_pos(forward) = Q
               /\ forward._forward_checkpoint = NoneValue
               /\ rewind_forward(forward) = forward
    /\ source_reader._backward_checkpoint = NoneValue =>
           rewind_backward(source_reader) = source_reader
    /\ source_reader._forward_checkpoint = NoneValue =>
           rewind_forward(source_reader) = source_reader
    /\ tokens # <<>> =>
           /\ tokens[1].method = "checkpoint" =>
                  source_reader = checkpoint(tokens[1].before)
           /\ tokens[1].method = "rewind_backward" =>
                  source_reader = rewind_backward(tokens[1].before)
           /\ tokens[1].method = "rewind_forward" =>
                  source_reader = rewind_forward(tokens[1].before)
           /\ tokens[1].method \in {"get", "peek"} =>
                  /\ source_reader._backward_checkpoint
                       = tokens[1].before._backward_checkpoint
                  /\ source_reader._forward_checkpoint
                       = tokens[1].before._forward_checkpoint

\* rewind_forward() was called with a forward anchor Q other than the
\* position P that rewind_backward() had gone back to
C23_Witness ==
    /\ tokens # <<>>
    /\ tokens[1].method = "rewind_forward"
    /\ tokens[1].before._forward_checkpoint # NoneValue
    /\ tokens[1].before._forward_checkpoint # get_file_pos(tokens[1].before)
    /\ get_file_pos(source_reader) = tokens[1].before._forward_checkpoint
    /\ get_file_pos(source_reader).line_num > 1

\* C24: peek(n, anchor) with n < 0 and the anchor inside the file returns
\* the characters from max(0, anchor - |n|) up to, not including, the anchor
\* and leaves the reader as it was.
C24_PeekBackward ==
    \A call \in {tokens[i] : i \in 1..Len(tokens)} :
        (/\ call.method = "peek"
         /\ call.arguments.n < 0
         /\ call.arguments.start_pos # NoneValue
         /\ call.arguments.start_pos.v \in 0..Len(call.before._file.data)) =>
            LET anchor == call.arguments.start_pos.v
                first == IF anchor + call.arguments.n < 0 THEN 0
                         ELSE anchor + call.arguments.n
            IN  /\ call.returned
                     = SubSeq(call.before._file.data, first + 1, anchor)
                /\ source_reader = call.before

\* C28: get(n) returns the characters of the source from the offset
\* get_file_pos().get_absolute_pos() on, whatever was called before; so
\* after checkpoint(), get(k), rewind_backward() the same k characters.
C28_GetAtPosition ==
    \A call \in {tokens[i] : i \in 1..Len(tokens)} :
        (call.method = "get" /\ call.arguments.n >= 0) =>
            LET offset == get_file_pos(call.before).absolute_pos
            IN  call.returned
                  = SubSeq(call.before._file.data, offset + 1,
                           Min(Len(call.before._file.data),
                               offset + call.arguments.n))

(***************************************************************************)
(* syntax_nodes.py: the parser.  A node class is named by its name; the    *)
(* constructor of a class is the list of the steps its __init__ takes on   *)
(* the lexer.  The lexer is seen through its tokens' types: peek() is the  *)
(* type of the next token, get() takes it.                                 *)
(***************************************************************************)
TokenLexer(types) == [types |-> types, taken |-> 0]

\* lexer.peek().get_type(); END once every token is taken
TokenLexer_peek(lexer) ==
    IF lexer.taken < Len(lexer.types) THEN lexer.types[lexer.taken + 1]
    ELSE "END"

\* lexer.get()
TokenLexer_get(lexer) ==
    [lexer EXCEPT !.taken = Min(Len(lexer.types), lexer.taken + 1)]

\* LeafNode.token_type of each leaf class
token_type ==
    ("Semicolon" :> "SEMICOLON") @@ ("FunKeyword" :> "FUN")
    @@ ("VarKeyword" :> "VAR") @@ ("IfKeyword" :> "IF")
    @@ ("ElseKeyword" :> "ELSE") @@ ("FromKeyword" :> "FROM")
    @@ ("PrintKeyword" :> "PRINT") @@ ("ReturnKeyword" :> "RETURN")
    @@ ("ToKeyword" :> "TO") @@ ("ByKeyword" :> "BY") @@ ("AsKeyword" :> "AS")
    @@ ("LeftParenthesis" :> "LEFT_PARENTHESIS")
    @@ ("RightParenthesis" :> "RIGHT_PARENTHESIS") @@ ("Comma" :> "COMMA")
    @@ ("LeftBracket" :> "LEFT_BRACKET") @@ ("RightBracket" :> "RIGHT_BRACKET")
    @@ ("Assign" :> "ASSIGN") @@ ("Access" :> "ACCESS")
    @@ ("Identifier" :> "IDENTIFIER")
    @@ ("PlusOperator" :> "PLUS") @@ ("MinusOperator" :> "MINUS")
    @@ ("MultiplyOperator" :> "MULTIPLICATION")
    @@ ("DivisionOperator" :> "DIVISION")
    @@ ("OrOperator" :> "LOGICAL_OR") @@ ("AndOperator" :> "LOGICAL_AND")
    @@ ("EqualOperator" :> "EQUALS") @@ ("NotEqualOperator" :> "NOT_EQUALS")
    @@ ("GreaterOperator" :> "GREATER")
    @@ ("GreaterOrEqualOperator" :> "GREATER_OR_EQUAL")
    @@ ("LessOperator" :> "LESS") @@ ("LessOrEqualOperator" :> "LESS_OR_EQUAL")
    @@ ("MathNegationOperator" :> "MINUS") @@ ("LogicNegationOperator" :> "NOT")
    @@ ("Years" :> "YEARS") @@ ("Months" :> "MONTHS") @@ ("Weeks" :> "WEEKS")
    @@ ("Days" :> "DAYS") @@ ("Hours" :> "HOURS") @@ ("Minutes" :> "MINUTES")
    @@ ("Seconds" :> "SECONDS")
    @@ ("NumberLiteral" :> "NUMBER_LITERAL")
    @@ ("StringLiteral" :> "STRING_LITERAL")
    @@ ("DateLiteral" :> "DATE_LITERAL") @@ ("TimeLiteral" :> "TIME_LITERAL")
    @@ ("DateTimeLiteral" :> "DATETIME_LITERAL")
    @@ ("TimedeltaLiteral" :> "TIMEDELTA_LITERAL")

\* the steps of an __init__:
\* X(lexer), the node built is not kept
Expect(class) == [k |-> "expect", class |-> class]

\* self.x = X(lexer).reduce()
Node(class) == [k |-> "node", class |-> class]

\* self.x = self.choose_and_build_node(lexer, classes, required)
Choose(classes, required) ==
    [k |-> "choose", classes |-> classes, required |-> required]

\* if lexer.peek().get_type() in X.starting_token_types(): steps
If(classes, steps) == [k |-> "if", classes |-> classes, steps |-> steps]

\* while lexer.peek().get_type() in X.starting_token_types(): steps
While(classes, steps) == [k |-> "while", classes |-> classes, steps |-> steps]

\* if isinstance(node, Identifier): the node becomes X(lexer, node) for the
\* class X of classes the next token starts, and is kept beside it if keep;
\* with no such class an error if required; then the steps
Fork(classes, required, keep, steps) ==
    [k |-> "fork", classes |-> classes, required |-> required, keep |-> keep,
     steps |-> steps]

TimeUnits ==
    {"Years", "Months", "Weeks", "Days", "Hours", "Minutes", "Seconds"}

Terms ==
    {"NumberLiteral", "StringLiteral", "DateLiteral", "TimeLiteral",
     "DateTimeLiteral", "TimedeltaLiteral", "Identifier",
     "ParenthesisedExpression"}

NestableStatements ==
    {"Identifier", "VariableDefinitionStatement", "IfStatement",
     "FromStatement", "PrintStatement", "ReturnStatement"}

\* Program._get_node
Program_get_node ==
    <<Choose({"FunctionDefinitionStatement"} \cup NestableStatements, TRUE),
      Fork({"FunctionCall", "VariableAssignmentStatement"}, TRUE, FALSE,
           <<Expect("Semicolon")>>)>>

\* Body._get_node
Body_get_node ==
    <<Choose(NestableStatements, FALSE),
      Fork({"FunctionCall", "VariableAssignmentStatement"}, FALSE, FALSE,
           <<Expect("Semicolon")>>)>>

LogicEqualityExpression__init__chained ==
    <<Node("LogicRelationalExpression"),
      While({"EqualOperator", "NotEqualOperator"},
            <<Choose({"EqualOperator", "NotEqualOperator"}, TRUE),
              Node("LogicRelationalExpression")>>)>>

\* LogicEqualityExpression.__init__
LogicEqualityExpression__init__ ==
    <<Node("LogicRelationalExpression"),
      If({"EqualOperator", "NotEqualOperator"},
         <<Choose({"EqualOperator", "NotEqualOperator"}, TRUE),
           Node("LogicRelationalExpression")>>)>>

\* LogicRelationalExpression.__init__
LogicRelationalExpression__init__ ==
    <<Node("LogicTerm"),
      If({"GreaterOperator", "GreaterOrEqualOperator", "LessOperator",
          "LessOrEqualOperator"},
         <<Choose({"GreaterOperator", "GreaterOrEqualOperator", "LessOperator",
                   "LessOrEqualOperator"}, TRUE),
           Node("LogicTerm")>>)>>

\* the steps of the __init__ of each class that is not a leaf
__init__(class) ==
    CASE class = "VariableAssignmentStatement" ->
             <<Expect("Assign"), Node("Expression")>>
      [] class = "FunctionDefinitionStatement" ->
             <<Expect("FunKeyword"), Node("Identifier"),
               Node("ParametersDeclaration"), Node("Body"),
               Expect("Semicolon")>>
      [] class = "VariableDefinitionStatement" ->
             <<Expect("VarKeyword"), Node("Identifier"),
               Fork({"VariableAssignmentStatement"}, FALSE, TRUE, <<>>),
               Expect("Semicolon")>>
      [] class = "IfStatement" ->
             <<Expect("IfKeyword"), Node("Expression"), Node("Body"),
               If({"ElseKeyword"}, <<Expect("ElseKeyword"), Node("Body")>>),
               Expect("Semicolon")>>
      [] class = "FromStatement" ->
             <<Expect("FromKeyword"), Node("Expression"), Expect("ToKeyword"),
               Node("Expression"), Expect("ByKeyword"),
               Choose(TimeUnits, TRUE), Expect("AsKeyword"),
               Node("Identifier"), Node("Body"), Expect("Semicolon")>>
      [] class = "PrintStatement" ->
             <<Expect("PrintKeyword"), Node("Expression"),
               Expect("Semicolon")>>
      [] class = "ReturnStatement" ->
             <<Expect("ReturnKeyword"), Choose({"Expression"}, FALSE),
               Expect("Semicolon")>>
      [] class = "ParametersDeclaration" ->
             <<Expect("LeftParenthesis"),
               If({"Identifier"},
                  <<Node("Identifier"),
                    While({"Comma"}, <<Expect("Comma"), Node("Identifier")>>)>>),
               Expect("RightParenthesis")>>
      [] class = "Body" ->
             <<Expect("LeftBracket"),
               While(NestableStatements, Body_get_node),
               Expect("RightBracket")>>
      [] class = "Expression" ->
             <<Node("LogicAndExpression"),
               While({"OrOperator"},
                     <<Node("OrOperator"), Node("LogicAndExpression")>>)>>
      [] class = "LogicAndExpression" ->
             <<Node("LogicEqualityExpression"),
               While({"AndOperator"},
                     <<Node("AndOperator"), Node("LogicEqualityExpression")>>)>>
      [] class = "LogicEqualityExpression" -> LogicEqualityExpression__init__
      [] class = "LogicRelationalExpression" ->
             LogicRelationalExpression__init__
      [] class = "LogicTerm" ->
             <<Choose({"LogicNegationOperator"}, FALSE),
               Node("MathExpression")>>
      [] class = "MathExpression" ->
             <<Node("MultiplicativeMathExpression"),
               While({"PlusOperator", "MinusOperator"},
                     <<Choose({"PlusOperator", "MinusOperator"}, TRUE),
                       Node("MultiplicativeMathExpression")>>)>>
      [] class = "MultiplicativeMathExpression" ->
             <<Node("MathTerm"),
               While({"MultiplyOperator", "DivisionOperator"},
                     <<Choose({"MultiplyOperator", "DivisionOperator"}, TRUE),
                       Node("MathTerm")>>)>>
      [] class = "MathTerm" ->
             <<Choose({"MathNegationOperator"}, FALSE), Choose(Terms, TRUE),
               Fork({"FunctionCall"}, FALSE, FALSE, <<>>),
               Choose({"TimeInfoAccess"}, FALSE)>>
      [] class = "ParenthesisedExpression" ->
             <<Expect("LeftParenthesis"), Node("Expression"),
               Expect("RightParenthesis")>>
      [] class = "FunctionCall" ->
             <<Expect("LeftParenthesis"),
               If({"Expression"},
                  <<Node("Expression"),
                    While({"Comma"}, <<Expect("Comma"), Node("Expression")>>)>>),
               Expect("RightParenthesis")>>
      [] class = "TimeInfoAccess" ->
             <<Expect("Access"), Choose(TimeUnits, TRUE)>>

\* the classes with reduce() of ReducibleNode
ReducibleNodes ==
    {"Expression", "LogicAndExpression", "LogicEqualityExpression",
     "LogicRelationalExpression", "LogicTerm", "MathExpression",
     "MultiplicativeMathExpression", "MathTerm", "ParenthesisedExpression"}

\* _starting_nodes of the classes that are not leaves
_starting_nodes(class) ==
    CASE class = "VariableAssignmentStatement" -> {"Assign"}
      [] class = "FunctionDefinitionStatement" -> {"FunKeyword"}
      [] class = "VariableDefinitionStatement" -> {"VarKeyword"}
      [] class = "IfStatement" -> {"IfKeyword"}
      [] class = "FromStatement" -> {"FromKeyword"}
      [] class = "PrintStatement" -> {"PrintKeyword"}
      [] class = "ReturnStatement" -> {"ReturnKeyword"}
      [] class = "ParametersDeclaration" -> {"LeftParenthesis"}
      [] class = "Body" -> {"LeftBracket"}
      [] class = "Expression" -> {"LogicAndExpression"}
      [] class = "LogicAndExpression" -> {"LogicEqualityExpression"}
      [] class = "LogicEqualityExpression" -> {"LogicRelationalExpression"}
      [] class = "LogicRelationalExpression" -> {"LogicTerm"}
      [] class = "LogicTerm" -> {"LogicNegationOperator", "MathExpression"}
      [] class = "MathExpression" -> {"MultiplicativeMathExpression"}
      [] class = "MultiplicativeMathExpression" -> {"MathTerm"}
      [] class = "MathTerm" -> {"MathNegationOperator"} \cup Terms
      [] class = "ParenthesisedExpression" -> {"LeftParenthesis"}
      [] class = "FunctionCall" -> {"LeftParenthesis"}
      [] class = "TimeInfoAccess" -> {"Access"}

RECURSIVE starting_token_types(_)
\* BaseNode.starting_token_types, LeafNode.starting_token_types
starting_token_types(class) ==
    IF class \in DOMAIN token_type THEN {token_type[class]}
    ELSE UNION {starting_token_types(node) : node \in _starting_nodes(class)}

\* ReducibleNode.reduce, BaseNode.reduce
reduce(node) ==
    IF node.t \in ReducibleNodes /\ Len(node.children) = 1
    THEN node.children[1]
    ELSE node

(***************************************************************************)
(* Program(lexer) on the tokens of a source: the loop of Program.__init__  *)
(* builds a statement a turn until the END token.  source_reader is the    *)
(* lexer, program the statements built so far and pc the constructors that *)
(* are running, the innermost last.                                        *)
(***************************************************************************)
EqualityOperators == {"EQUALS", "NOT_EQUALS"}

RelationalOperators == {"GREATER", "GREATER_OR_EQUAL", "LESS", "LESS_OR_EQUAL"}

\* expressions over a, 1, b, 2: two comparisons in a row, and others
ChainedExpressions ==
    {<<"IDENTIFIER", first, "NUMBER_LITERAL", second, "IDENTIFIER">> :
        <<first, second>> \in (EqualityOperators \X EqualityOperators)
                          \cup (RelationalOperators \X RelationalOperators)}
    \cup {<<"IDENTIFIER", "EQUALS", "NUMBER_LITERAL", "LESS", "IDENTIFIER",
            "NOT_EQUALS", "NUMBER_LITERAL">>,
          <<"IDENTIFIER", "LESS", "NUMBER_LITERAL", "PLUS", "IDENTIFIER",
            "GREATER", "NUMBER_LITERAL">>,
          <<"IDENTIFIER", "EQUALS", "LEFT_PARENTHESIS", "NUMBER_LITERAL",
            "EQUALS", "IDENTIFIER", "RIGHT_PARENTHESIS", "NOT_EQUALS",
            "NUMBER_LITERAL">>,
          <<"IDENTIFIER", "GREATER", "NOT", "IDENTIFIER", "LEFT_PARENTHESIS",
            "RIGHT_PARENTHESIS", "LESS", "NUMBER_LITERAL">>}

OtherExpressions ==
    {<<"IDENTIFIER">>}
    \cup {<<"IDENTIFIER", operator, "NUMBER_LITERAL">> :
             operator \in EqualityOperators \cup RelationalOperators}
    \cup {<<"IDENTIFIER", "LESS", "NUMBER_LITERAL", "EQUALS", "IDENTIFIER",
            "LESS", "NUMBER_LITERAL">>,
          <<"LEFT_PARENTHESIS", "IDENTIFIER", "EQUALS", "NUMBER_LITERAL",
            "RIGHT_PARENTHESIS", "NOT_EQUALS", "IDENTIFIER">>,
          <<"IDENTIFIER", "LESS", "LEFT_PARENTHESIS", "NUMBER_LITERAL",
            "GREATER", "IDENTIFIER", "RIGHT_PARENTHESIS">>,
          <<"IDENTIFIER", "EQUALS", "NUMBER_LITERAL", "LOGICAL_AND",
            "IDENTIFIER", "NOT_EQUALS", "NUMBER_LITERAL">>,
          <<"IDENTIFIER", "LESS", "NUMBER_LITERAL", "LOGICAL_OR",
            "IDENTIFIER", "GREATER", "NUMBER_LITERAL">>,
          <<"IDENTIFIER", "LEFT_PARENTHESIS", "IDENTIFIER", "EQUALS",
            "NUMBER_LITERAL", "COMMA", "IDENTIFIER", "NOT_EQUALS",
            "NUMBER_LITERAL", "RIGHT_PARENTHESIS">>,
          <<"LEFT_PARENTHESIS", "IDENTIFIER", "RIGHT_PARENTHESIS",
            "LEFT_PARENTHESIS", "NUMBER_LITERAL", "RIGHT_PARENTHESIS", "ACCESS",
            "DAYS">>}

\* the statements an expression may appear in
ExpressionStatements(expression) ==
    {<<"VAR", "IDENTIFIER", "ASSIGN">> \o expression \o <<"SEMICOLON">>,
     <<"IDENTIFIER", "ASSIGN">> \o expression \o <<"SEMICOLON">>,
     <<"PRINT">> \o expression \o <<"SEMICOLON">>,
     <<"RETURN">> \o expression \o <<"SEMICOLON">>,
     <<"IF">> \o expression
         \o <<"LEFT_BRACKET", "RIGHT_BRACKET", "SEMICOLON">>,
     <<"FROM">> \o expression
         \o <<"TO", "NUMBER_LITERAL", "BY", "DAYS", "AS", "IDENTIFIER",
              "LEFT_BRACKET", "RIGHT_BRACKET", "SEMICOLON">>,
     <<"FROM", "NUMBER_LITERAL", "TO">> \o expression
         \o <<"BY", "DAYS", "AS", "IDENTIFIER", "LEFT_BRACKET",
              "RIGHT_BRACKET", "SEMICOLON">>,
     <<"IDENTIFIER", "LEFT_PARENTHESIS">> \o expression
         \o <<"RIGHT_PARENTHESIS", "SEMICOLON">>,
     <<"IDENTIFIER", "LEFT_PARENTHESIS", "NUMBER_LITERAL", "COMMA">>
         \o expression \o <<"RIGHT_PARENTHESIS", "SEMICOLON">>,
     <<"PRINT", "LEFT_PARENTHESIS">> \o expression
         \o <<"RIGHT_PARENTHESIS", "SEMICOLON">>,
     <<"PRINT", "MINUS", "IDENTIFIER", "LEFT_PARENTHESIS">> \o expression
         \o <<"RIGHT_PARENTHESIS", "ACCESS", "DAYS", "SEMICOLON">>}

\* statements that begin with an identifier, and what follows it
IdentifierStatements ==
    {<<"IDENTIFIER">> \o follows :
        follows \in {<<"LEFT_PARENTHESIS", "RIGHT_PARENTHESIS", "SEMICOLON">>,
                     <<"ASSIGN", "NUMBER_LITERAL", "SEMICOLON">>,
                     <<"SEMICOLON">>,
                     <<"IDENTIFIER", "SEMICOLON">>,
                     <<"EQUALS", "NUMBER_LITERAL", "SEMICOLON">>,
                     <<"NUMBER_LITERAL", "SEMICOLON">>,
                     <<"ACCESS", "DAYS", "SEMICOLON">>,
                     <<"RIGHT_PARENTHESIS", "SEMICOLON">>,
                     <<"LEFT_BRACKET", "RIGHT_BRACKET", "SEMICOLON">>,
                     <<"LEFT_PARENTHESIS", "RIGHT_PARENTHESIS">>,
                     <<"COMMA", "IDENTIFIER", "SEMICOLON">>,
                     <<>>}}

\* a statement at top level and inside the bodies
Placed(statement) ==
    {statement,
     <<"PRINT", "NUMBER_LITERAL", "SEMICOLON">> \o statement,
     <<"IF", "NUMBER_LITERAL", "LEFT_BRACKET">> \o statement
         \o <<"RIGHT_BRACKET", "SEMICOLON">>,
     <<"IF", "NUMBER_LITERAL", "LEFT_BRACKET", "RIGHT_BRACKET", "ELSE",
       "LEFT_BRACKET", "PRINT", "NUMBER_LITERAL", "SEMICOLON">> \o statement
         \o <<"RIGHT_BRACKET", "SEMICOLON">>,
     <<"FUN", "IDENTIFIER", "LEFT_PARENTHESIS", "IDENTIFIER", "COMMA",
       "IDENTIFIER", "RIGHT_PARENTHESIS", "LEFT_BRACKET">> \o statement
         \o <<"RIGHT_BRACKET", "SEMICOLON">>,
     <<"FROM", "DATE_LITERAL", "TO", "DATE_LITERAL", "BY", "DAYS", "AS",
       "IDENTIFIER", "LEFT_BRACKET">> \o statement
         \o <<"RIGHT_BRACKET", "SEMICOLON">>,
     <<"IF", "NUMBER_LITERAL", "LEFT_BRACKET", "IF", "IDENTIFIER",
       "LEFT_BRACKET">> \o statement
         \o <<"RIGHT_BRACKET", "SEMICOLON", "RIGHT_BRACKET", "SEMICOLON">>}

\* the expressions tried inside the bodies
PlacedExpressions ==
    {<<"IDENTIFIER">>,
     <<"IDENTIFIER", "LESS", "NUMBER_LITERAL", "EQUALS", "IDENTIFIER", "LESS",
       "NUMBER_LITERAL">>,
     <<"IDENTIFIER", "EQUALS", "NUMBER_LITERAL", "NOT_EQUALS", "IDENTIFIER">>,
     <<"IDENTIFIER", "NOT_EQUALS", "NUMBER_LITERAL", "NOT_EQUALS",
       "IDENTIFIER">>,
     <<"IDENTIFIER", "GREATER", "NUMBER_LITERAL", "LESS", "IDENTIFIER">>,
     <<"IDENTIFIER", "LESS_OR_EQUAL", "NUMBER_LITERAL", "LESS_OR_EQUAL",
       "IDENTIFIER">>}

TokenTypes ==
    UNION {ExpressionStatements(expression) :
              expression \in ChainedExpressions \cup OtherExpressions}
    \cup UNION {Placed(statement) :
                   statement \in IdentifierStatements
                       \cup UNION {ExpressionStatements(expression) :
                                      expression \in PlacedExpressions}}

InitParser ==
    /\ source_reader \in {TokenLexer(types) : types \in TokenTypes}
    /\ program = <<>>
    /\ pc = <<>>
    /\ status = "parsing"
    /\ outcome = NoneValue
    /\ tokens = <<>> /\ env = Environment
    /\ lhs = NoneValue /\ rhs = NoneValue /\ op = "none"
    /\ result = NoneValue /\ back = NoneValue

\* a constructor that is running: its class, the steps it has yet to take,
\* the nodes it has kept, and whether the node takes the place of the
\* identifier it was given
Constructing(class, steps, children, replaces) ==
    [class |-> class, steps |-> steps, children |-> children,
     replaces |-> replaces]

\* the constructor that is running goes on with steps, having kept children
Continue(steps, children) ==
    [pc EXCEPT ![Len(pc)].steps = steps, ![Len(pc)].children = children]

\* the classes of a step that the next token starts
Possible(step) ==
    {class \in step.classes :
        TokenLexer_peek(source_reader) \in starting_token_types(class)}

\* the step the running constructor is at is of one of kinds
At(kinds) ==
    /\ status = "parsing"
    /\ pc # <<>>
    /\ pc[Len(pc)].steps # <<>>
    /\ Head(pc[Len(pc)].steps).k \in kinds

\* BaseNode.make_error: raise SyntacticError(token, ...) at the next token
BaseNode_make_error ==
    /\ status' = "raised"
    /\ outcome' = Raise("SyntacticError")
    /\ UNCHANGED <<source_reader, program, pc>>

\* a turn of the loop of Program.__init__: self._get_node(lexer)
Program__init__ ==
    /\ status = "parsing"
    /\ pc = <<>>
    /\ TokenLexer_peek(source_reader) # "END"
    /\ pc' = <<Constructing("Program", Program_get_node, <<>>, FALSE)>>
    /\ UNCHANGED <<source_reader, program, status, outcome>>
    /\ UNCHANGED <<tokens, env, lhs, rhs, op, result, back>>

\* the loop of Program.__init__ ends at the END token
Program_built ==
    /\ status = "parsing"
    /\ pc = <<>>
    /\ TokenLexer_peek(source_reader) = "END"
    /\ status' = "parsed"
    /\ UNCHANGED <<source_reader, program, pc, outcome>>
    /\ UNCHANGED <<tokens, env, lhs, rhs, op, result, back>>

\* LeafNode.__init__
LeafNode__init__ ==
    /\ At({"expect", "node"})
    /\ \E top \in {pc[Len(pc)]} : \E step \in {Head(top.steps)} :
           /\ step.class \in DOMAIN token_type
           /\ IF TokenLexer_peek(source_reader) # token_type[step.class]
              THEN BaseNode_make_error
              ELSE /\ source_reader' = TokenLexer_get(source_reader)
                   /\ pc' = Continue(Tail(top.steps),
                                     IF step.k = "expect" THEN top.children
                                     ELSE Append(top.children,
                                                 [t |-> step.class,
                                                  token |-> source_reader.taken
                                                            + 1]))
                   /\ UNCHANGED <<program, status, outcome>>
    /\ UNCHANGED <<tokens, env, lhs, rhs, op, result, back>>

\* X(lexer) for a class X that is not a leaf: its __init__ begins
BaseNode__init__ ==
    /\ At({"node"})
    /\ \E top \in {pc[Len(pc)]} : \E step \in {Head(top.steps)} :
           /\ step.class \notin DOMAIN token_type
           /\ pc' = Append(Continue(Tail(top.steps), top.children),
                           Constructing(step.class, __init__(step.class), <<>>,
                                        FALSE))
    /\ UNCHANGED <<source_reader, program, status, outcome>>
    /\ UNCHANGED <<tokens, env, lhs, rhs, op, result, back>>

\* BaseNode.choose_and_build_node
choose_and_build_node ==
    /\ At({"choose"})
    /\ \E top \in {pc[Len(pc)]} : \E step \in {Head(top.steps)} :
           IF Possible(step) # {}
           THEN /\ pc' = Continue(<<Node(CHOOSE class \in Possible(step) : TRUE)>>
                                      \o Tail(top.steps), top.children)
                /\ UNCHANGED <<source_reader, program, status, outcome>>
           ELSE IF step.required THEN BaseNode_make_error
           ELSE /\ pc' = Continue(Tail(top.steps), top.children)
                /\ UNCHANGED <<source_reader, program, status, outcome>>
    /\ UNCHANGED <<tokens, env, lhs, rhs, op, result, back>>

\* if or while lexer.peek().get_type() in X.starting_token_types()
peek_starting ==
    /\ At({"if", "while"})
    /\ \E top \in {pc[Len(pc)]} : \E step \in {Head(top.steps)} :
           pc' = Continue(IF Possible(step) = {} THEN Tail(top.steps)
                          ELSE IF step.k = "if"
                          THEN step.steps \o Tail(top.steps)
                          ELSE step.steps \o top.steps,
                          top.children)
    /\ UNCHANGED <<source_reader, program, status, outcome>>
    /\ UNCHANGED <<tokens, env, lhs, rhs, op, result, back>>

\* if isinstance(node, Identifier): FunctionCall(lexer, node),
\* VariableAssignmentStatement(lexer, node), an error or neither
isinstance_Identifier ==
    /\ At({"fork"})
    /\ \E top \in {pc[Len(pc)]} : \E step \in {Head(top.steps)} :
           IF IF top.children = <<>> THEN TRUE
              ELSE top.children[Len(top.children)].t # "Identifier"
           THEN /\ pc' = Continue(Tail(top.steps), top.children)
                /\ UNCHANGED <<source_reader, program, status, outcome>>
           ELSE IF Possible(step) # {}
           THEN /\ \E class \in {CHOOSE class \in Possible(step) : TRUE} :
                       pc' = Append(Continue(step.steps \o Tail(top.steps),
                                             top.children),
                                    Constructing(
                                        class, __init__(class),
                                        <<top.children[Len(top.children)]>>,
                                        ~step.keep))
                /\ UNCHANGED <<source_reader, program, status, outcome>>
           ELSE IF step.required THEN BaseNode_make_error
           ELSE /\ pc' = Continue(step.steps \o Tail(top.steps), top.children)
                /\ UNCHANGED <<source_reader, program, status, outcome>>
    /\ UNCHANGED <<tokens, env, lhs, rhs, op, result, back>>

\* an __init__ returns: the node, reduced, is kept by the constructor that
\* asked for it; a statement is appended to Program.statements
return_node ==
    /\ status = "parsing"
    /\ pc # <<>>
    /\ pc[Len(pc)].steps = <<>>
    /\ \E top \in {pc[Len(pc)]} :
           IF Len(pc) = 1
           THEN /\ program' = program \o top.children
                /\ pc' = <<>>
           ELSE /\ \E asked \in {pc[Len(pc) - 1]} :
                       pc' = [SubSeq(pc, 1, Len(pc) - 1)
                                  EXCEPT ![Len(pc) - 1].children =
                                      Append(IF top.replaces
                                             THEN SubSeq(asked.children, 1,
                                                    Len(asked.children) - 1)
                                             ELSE asked.children,
                                             reduce([t |-> top.class,
                                                     children |-> top.children]))]
                /\ UNCHANGED program
    /\ UNCHANGED <<source_reader, status, outcome>>
    /\ UNCHANGED <<tokens, env, lhs, rhs, op, result, back>>

NextParser ==
    \/ Program__init__
    \/ Program_built
    \/ LeafNode__init__
    \/ BaseNode__init__
    \/ choose_and_build_node
    \/ peek_starting
    \/ isinstance_Identifier
    \/ return_node

SpecParser == InitParser /\ [][NextParser]_vars

(***************************************************************************)
(* The claims about the parser, checked under SpecParser.                  *)
(***************************************************************************)
\* the pairs <<i, j>> of operators of ops in types with nothing between them
\* but operands and operators of inner, and whole parentheses
Chains(types, ops, inner) ==
    LET RECURSIVE between(_, _, _)
        between(k, j, depth) ==
            IF k = j THEN depth = 0
            ELSE IF types[k] = "LEFT_PARENTHESIS"
            THEN between(k + 1, j, depth + 1)
            ELSE IF types[k] = "RIGHT_PARENTHESIS"
            THEN depth > 0 /\ between(k + 1, j, depth - 1)
            ELSE (depth > 0 \/ types[k] \in inner) /\ between(k + 1, j, depth)
    IN  {pair \in (1..Len(types)) \X (1..Len(types)) :
            /\ pair[1] < pair[2]
            /\ types[pair[1]] \in ops
            /\ types[pair[2]] \in ops
            /\ between(pair[1] + 1, pair[2], 0)}

Operands ==
    {"IDENTIFIER", "NUMBER_LITERAL", "STRING_LITERAL", "DATE_LITERAL",
     "TIME_LITERAL", "DATETIME_LITERAL", "TIMEDELTA_LITERAL", "ACCESS", "YEARS",
     "MONTHS", "WEEKS", "DAYS", "HOURS", "MINUTES", "SECONDS", "PLUS", "MINUS",
     "MULTIPLICATION", "DIVISION", "NOT"}

\* the chains of two equality or of two relational operators of the source
Chained ==
    Chains(source_reader.types, EqualityOperators,
           Operands \cup RelationalOperators)
    \cup Chains(source_reader.types, RelationalOperators, Operands)

\* C21: a source with a == b != c or a > b < c outside parentheses, in any
\* statement, is never parsed: the parser does not get past the second
\* operator, Program(lexer) builds no tree and what it raises is
\* SyntacticError.
C21_ChainsRejected ==
    \A pair \in Chained :
        /\ source_reader.taken < pair[2]
        /\ status # "parsed"
        /\ status = "raised" => outcome.exc = "SyntacticError"

\* a chain of two relational operators in a statement of a body was
\* rejected at its second operator
C21_Witness ==
    /\ status = "raised"
    /\ outcome.exc = "SyntacticError"
    /\ \E i \in 1..Len(pc) : pc[i].class = "Body"
    /\ \E pair \in Chained :
           /\ source_reader.types[pair[1]] \in RelationalOperators
           /\ source_reader.taken = pair[2] - 1

\* C22: an identifier where a statement begins - first, after a ; or after
\* a { - that is followed by neither ( nor = is rejected: the parser does
\* not get past it and Program(lexer) builds no tree.
C22_IdentifierStatement ==
    \A i \in 1..Len(source_reader.types) :
        (/\ source_reader.types[i] = "IDENTIFIER"
         /\ IF i = 1 THEN TRUE
            ELSE source_reader.types[i - 1] \in {"SEMICOLON", "LEFT_BRACKET"}
         /\ IF i = Len(source_reader.types) THEN TRUE
            ELSE source_reader.types[i + 1]
                     \notin {"LEFT_PARENTHESIS", "ASSIGN"}) =>
            /\ source_reader.taken <= i
            /\ status # "parsed"
            /\ status = "raised" => outcome.exc = "SyntacticError"

====
